---- MODULE Spec2Model ----
(***************************************************************************)
(* ColumnData (duckdb/storage/table/column_data.cpp, carried in            *)
(* src/src/planner/operator/logical_get.cpp lines 146-783): one column's   *)
(* segment tree, its update overlay and the operations on them.            *)
(*                                                                         *)
(* SegmentTree, ColumnSegment, UpdateSegment and ColumnDataCheckpointer    *)
(* are collaborators whose code is not part of the sources; they are       *)
(* modelled from their contract in the specification (sections 3, 4.1, 4.5 *)
(* and 6) and are marked as such in the model map.                         *)
(***************************************************************************)
EXTENDS Integers, Sequences, FiniteSets, TLC

\* ------------------------------------------------------------------ bounds
\* rows one transient segment absorbs before ColumnSegment::Append reports
\* a short copy (segment_size / type size)
SegmentCapacity == 2
\* rows of one vector-block; a build parameter of the code (line 570)
STANDARD_VECTOR_SIZE == 2
\* cap on ColumnData::count
MaxRows == 5
\* cap on the segments of a tree: more than MaxRows rows can take
MaxSegments == 7
\* cap on the entries the update overlay holds
MaxUpdates == 2
\* cap on ColumnData::count where the overlay is exercised
MaxUpdateRows == 3

\* commit ids are 1 .. MaxClock
MaxClock == 1
\* the values of a column
Values == {0, 1}
\* the start rows of a column: at construction and by SetStart
StartRows == {0, 1}
\* the transactions
Txns == {1, 2}

Min(a, b) == IF a < b THEN a ELSE b
Max(a, b) == IF a > b THEN a ELSE b

RECURSIVE SumCounts(_)
SumCounts(segs) ==
    IF segs = <<>> THEN 0 ELSE Head(segs).count + SumCounts(Tail(segs))

VARIABLES
    start,          \* ColumnData::start
    count,          \* ColumnData::count
    data,           \* ColumnData::data, the segment tree: a sequence of segments
    stats,          \* ColumnData::stats->statistics
    updates,        \* ColumnData::updates, the update overlay
    append_state,   \* the ColumnAppendState of the append in progress
    scan_state,     \* the ColumnScanState of the scan in progress
    txns,           \* the start_time of each session's open transaction
    clock,          \* the commit timestamp counter
    last,           \* what the last operation was given and what it returned
    net_rows,       \* rows given to Append or loaded, minus rows taken out of segments
    phase,          \* where a caller's sequence of calls stands
    snap,           \* the column as it was when the append to revert began
    scan_log,       \* the counts the scans of the scan in progress returned
    lock,           \* the thread that holds the lock of the segment tree, or "none"
    pc,             \* where each thread stands in the call it is making
    pending,        \* AppendData's offset, append_count and copied_elements
    reading,        \* the reading thread's vector_index, vector_count and cursor
    moved,          \* the nodes Checkpoint moved out and the tree it was given
    locks,          \* the threads that hold stats_lock and update_lock, or "none"
    updating        \* the calls on the overlay in progress: their locals

vars == <<start, count, data, stats, updates, append_state, scan_state, txns,
          clock, last, net_rows, phase, snap, scan_log, lock, pc, pending,
          reading, moved, locks, updating>>

\* the threads' own state
threads == <<lock, pc, pending, reading, moved, locks, updating>>

\* what the calls on the column itself leave alone
caller == <<phase, snap, scan_log, threads>>

\* ------------------------------------------------------------ statistics
\* BaseStatistics as a zone map: <<>> is the empty statistics, <<lo, hi>> a
\* min/max pair.
EmptyStats == <<>>

\* the null stats pointer of a column that has a parent, written as a zone map
\* no value lies in
NullStats == <<1, 0>>

\* a check of the stats pointer that never finds it null
HasStatisticsAlways(statistics) == TRUE

\* the test of stats that Append, CheckZonemap, GetStatistics and
\* MergeStatistics begin with
HasStatistics(statistics) == statistics # NullStats

StatsOfValue(v) == <<v, v>>

Merge(a, b) ==
    IF a = <<>> THEN b
    ELSE IF b = <<>> THEN a
    ELSE <<Min(a[1], b[1]), Max(a[2], b[2])>>

RECURSIVE StatsOfRows(_)
StatsOfRows(rows) ==
    IF rows = <<>> THEN EmptyStats
    ELSE Merge(StatsOfValue(Head(rows)), StatsOfRows(Tail(rows)))

\* ---------------------------------------------------------- ColumnSegment
CreateTransientSegment(start_row) ==
    [start |-> start_row, count |-> 0, segment_type |-> "TRANSIENT",
     rows |-> <<>>, stats |-> EmptyStats]

CreatePersistentSegment(row_start, tuple_count, rows, statistics) ==
    [start |-> row_start, count |-> tuple_count, segment_type |-> "PERSISTENT",
     rows |-> rows, stats |-> statistics]

\* function.init_append of the segment's compression function: the
\* uncompressed function of a transient segment has it
HasInitAppend(segment) == segment.segment_type = "TRANSIENT"

\* a segment that absorbs no row
SegmentCopiedNone(segment, append_count) == 0

\* ColumnSegment::Append: how many of append_count rows the segment absorbs
SegmentCopied(segment, append_count) ==
    Min(append_count, Max(SegmentCapacity - segment.count, 0))

\* ColumnSegment::Append: the rows vdata[offset+1 .. offset+copied] are
\* written, the segment statistics widened, then the count is raised
SegmentAppend(segment, vdata, offset, append_count) ==
    LET copied == SegmentCopied(segment, append_count)
        added == SubSeq(vdata, offset + 1, offset + copied)
    IN [segment EXCEPT !.rows = SubSeq(segment.rows, 1, segment.count) \o added,
                       !.count = segment.count + copied,
                       !.stats = Merge(segment.stats, StatsOfRows(added))]

\* ColumnSegment::Append in its two steps: the rows are written after the rows
\* the segment holds, then the segment's count is raised over them
SegmentWrite(segment, vdata, offset, append_count) ==
    [segment EXCEPT !.rows = SubSeq(segment.rows, 1, segment.count)
                             \o SubSeq(vdata, offset + 1,
                                       offset + SegmentCopied(segment, append_count))]

SegmentRaiseCount(segment) ==
    [segment EXCEPT !.count = Len(segment.rows),
                    !.stats = Merge(segment.stats,
                                    StatsOfRows(SubSeq(segment.rows, segment.count + 1,
                                                       Len(segment.rows))))]

\* ColumnSegment::RevertAppend: rows at and after start_row are discarded
SegmentRevertAppend(segment, start_row) ==
    [segment EXCEPT !.count = start_row - segment.start,
                    !.rows = SubSeq(segment.rows, 1, start_row - segment.start)]

\* ------------------------------------------------------------ SegmentTree
IsEmpty(tree) == tree = <<>>

GetLastSegment(tree) == tree[Len(tree)]

AppendSegment(tree, segment) == Append(tree, segment)

\* removes the segments after segment_index
EraseSegments(tree, segment_index) == SubSeq(tree, 1, segment_index)

SegmentHasRow(segment, row) ==
    segment.start <= row /\ row < segment.start + segment.count

\* 0 stands for the InternalException of a row that no segment holds
GetSegmentIndex(tree, row) ==
    IF \E i \in 1..Len(tree) : SegmentHasRow(tree[i], row)
    THEN CHOOSE i \in 1..Len(tree) :
            /\ SegmentHasRow(tree[i], row)
            /\ \A j \in 1..(i - 1) : ~SegmentHasRow(tree[j], row)
    ELSE 0

\* ------------------------------------------------------------- ColumnData
AppendTransientSegment(tree, start_row) ==
    AppendSegment(tree, CreateTransientSegment(start_row))

\* an InitializeAppend that appends to whatever segment is last
InitializeAppendResultOnTail(tree, col_start) ==
    LET t1 == IF IsEmpty(tree) THEN AppendTransientSegment(tree, col_start) ELSE tree
    IN [data |-> t1, current |-> Len(t1)]

\* the tree and the cursor after InitializeAppend
InitializeAppendResult(tree, col_start) ==
    LET t1 == IF IsEmpty(tree) THEN AppendTransientSegment(tree, col_start) ELSE tree
        segment == GetLastSegment(t1)
        t2 == IF segment.segment_type = "PERSISTENT" \/ ~HasInitAppend(segment)
              THEN AppendTransientSegment(t1, segment.start + segment.count)
              ELSE t1
    IN [data |-> t2, current |-> Len(t2)]

\* a loop that gives every segment the input vector from the offset it was
\* called with (line 499 left out)
RECURSIVE AppendDataLoopSameOffset(_, _, _, _, _, _)
AppendDataLoopSameOffset(tree, current, append_stats, vdata, offset, append_count) ==
    LET copied == SegmentCopied(tree[current], append_count)
        t1 == [tree EXCEPT ![current] = SegmentAppend(@, vdata, offset, append_count)]
        s1 == Merge(append_stats, t1[current].stats)
    IN IF copied = append_count
       THEN [data |-> t1, current |-> current, stats |-> s1]
       ELSE LET t2 == AppendTransientSegment(t1, t1[current].start + t1[current].count)
            IN AppendDataLoopSameOffset(t2, Len(t2), s1, vdata, offset,
                                        append_count - copied)

\* the loop of AppendData: the tree, the cursor and the merged statistics when
\* the loop has copied all of append_count
RECURSIVE AppendDataLoop(_, _, _, _, _, _)
AppendDataLoop(tree, current, append_stats, vdata, offset, append_count) ==
    LET copied == SegmentCopied(tree[current], append_count)
        t1 == [tree EXCEPT ![current] = SegmentAppend(@, vdata, offset, append_count)]
        s1 == Merge(append_stats, t1[current].stats)
    IN IF copied = append_count
       THEN [data |-> t1, current |-> current, stats |-> s1]
       ELSE LET t2 == AppendTransientSegment(t1, t1[current].start + t1[current].count)
            IN AppendDataLoop(t2, Len(t2), s1, vdata, offset + copied,
                              append_count - copied)

\* the input vector of an Append: append_count values 0, 1, 2, 0, ...
InputVector(append_count) ==
    [i \in 1..append_count |-> (i - 1) % Cardinality(Values)]

\* ---------------------------------------------------------- UpdateSegment
\* The overlay holds entries [row, txn, version, value]: row is the offset of
\* the row from the column's start, version 0 an uncommitted entry of txn, a
\* version above 0 the commit id of a committed entry.
NoUpdates == [present |-> FALSE, info |-> {}]

\* TransactionData(transaction_id, start_time)
TransactionData(transaction_id, start_time) ==
    [transaction_id |-> transaction_id, start_time |-> start_time]

VectorRows(vector_index) ==
    (vector_index * STANDARD_VECTOR_SIZE) ..
        (vector_index * STANDARD_VECTOR_SIZE + STANDARD_VECTOR_SIZE - 1)

HasUncommittedUpdates(info, vector_index) ==
    \E e \in info : e.version = 0 /\ e.row \in VectorRows(vector_index)

\* the committed entries of a row, and the newest of a set of them
CommittedEntries(info, row) == {e \in info : e.row = row /\ e.version > 0}

Newest(entries) == CHOOSE e \in entries : \A f \in entries : f.version <= e.version

\* UpdateSegment::FetchCommitted / FetchCommittedRange on one row
CommittedValue(info, row, base) ==
    IF CommittedEntries(info, row) = {} THEN base
    ELSE Newest(CommittedEntries(info, row)).value

\* the entries of a row that transaction sees: its own, and those committed
\* at or before its start_time
VisibleEntries(info, transaction, row) ==
    {e \in info : /\ e.row = row
                  /\ \/ e.version = 0 /\ e.txn = transaction.transaction_id
                     \/ e.version > 0 /\ e.version <= transaction.start_time}

\* UpdateSegment::FetchUpdates / FetchRow on one row
VisibleValue(info, transaction, row, base) ==
    LET own == {e \in VisibleEntries(info, transaction, row) : e.version = 0}
        old == {e \in VisibleEntries(info, transaction, row) : e.version > 0}
    IN IF own # {} THEN (CHOOSE e \in own : TRUE).value
       ELSE IF old # {} THEN Newest(old).value
       ELSE base

\* UpdateSegment::Update refuses a row that another transaction has written
\* and that the updating transaction cannot see as committed
UpdateConflict(info, transaction, row) ==
    \E e \in info : /\ e.row = row
                    /\ \/ e.version = 0 /\ e.txn # transaction.transaction_id
                       \/ e.version > transaction.start_time

\* UpdateSegment::Update of one row: the transaction's entry of the row is
\* replaced by the new value
UpdateSegmentUpdate(info, transaction, row, value) ==
    {e \in info : ~(e.row = row /\ e.version = 0)}
        \cup {[row |-> row, txn |-> transaction.transaction_id, version |-> 0,
               value |-> value]}

\* the commit of a transaction stamps its entries with the commit id, which
\* takes the place of the transaction id
CommitEntries(info, transaction_id, commit_id) ==
    {IF e.version = 0 /\ e.txn = transaction_id
     THEN [e EXCEPT !.version = commit_id, !.txn = 0] ELSE e : e \in info}

\* ------------------------------------------------------------------ scans
\* what a decode returns for a row position the segment has not written
Unwritten == Cardinality(Values)

NullScanState ==
    [current |-> 0, row_index |-> 0, internal_index |-> 0, initialized |-> FALSE]

\* ColumnSegment::Scan / FetchRow: the stored value of one row
SegmentRead(segment, row) ==
    IF row >= segment.start /\ row - segment.start + 1 <= Len(segment.rows)
    THEN segment.rows[row - segment.start + 1]
    ELSE Unwritten

\* SegmentTree::GetNextSegment: 0 at the tail
GetNextSegment(tree, current) == IF current < Len(tree) THEN current + 1 ELSE 0

\* a scan loop that stops at the end of the segment it started in
ScanVectorLoopTrusting(tree, current, row_index, remaining, initial_remaining, has_updates, force_fetch_row, acc, entire) ==
    [current |-> current, row_index |-> row_index + remaining,
     rows |-> acc \o [i \in 1..remaining |-> SegmentRead(tree[current], row_index + i - 1)],
     entire |-> entire]

ScanVectorLoopInSegment(tree, current, row_index, remaining, initial_remaining, has_updates, force_fetch_row, acc, entire) ==
    LET segment == tree[current]
        segment_end == segment.start + segment.count
        scan_count == IF segment_end >= row_index
                      THEN Min(remaining, segment_end - row_index)
                      ELSE remaining
    IN [current |-> current, row_index |-> row_index + scan_count,
        rows |-> acc \o [i \in 1..scan_count |-> SegmentRead(segment, row_index + i - 1)],
        entire |-> entire]

\* the while loop of ColumnData::ScanVector(state, result, remaining, has_updates);
\* acc is the result vector so far, entire whether a segment was allowed to
\* decode the entire vector directly
RECURSIVE ScanVectorLoop(_, _, _, _, _, _, _, _, _)
ScanVectorLoop(tree, current, row_index, remaining, initial_remaining, has_updates, force_fetch_row, acc, entire) ==
    IF remaining = 0
    THEN [current |-> current, row_index |-> row_index, rows |-> acc,
          entire |-> entire]
    ELSE
      LET segment == tree[current]
          segment_end == segment.start + segment.count
          \* idx_t arithmetic: a row_index past the segment's end wraps around
          scan_count == IF segment_end >= row_index
                        THEN Min(remaining, segment_end - row_index)
                        ELSE remaining
          entire_vector == ~has_updates /\ scan_count = initial_remaining
          scanned == [i \in 1..scan_count |-> SegmentRead(segment, row_index + i - 1)]
          next == GetNextSegment(tree, current)
          left == remaining - scan_count
      IN IF left > 0 /\ next = 0
         THEN [current |-> current, row_index |-> row_index + scan_count,
               rows |-> acc \o scanned,
               entire |-> entire \/ (scan_count > 0 /\ ~force_fetch_row /\ entire_vector)]
         ELSE ScanVectorLoop(tree, IF left > 0 THEN next ELSE current,
                  row_index + scan_count, left, initial_remaining, has_updates,
                  force_fetch_row, acc \o scanned,
                  entire \/ (scan_count > 0 /\ ~force_fetch_row /\ entire_vector))

\* ColumnData::ScanVector(state, result, remaining, has_updates): the rows
\* decoded and the cursor afterwards
ScanVector(tree, state, remaining, has_updates, force_fetch_row) ==
    LET r == ScanVectorLoop(tree, state.current, state.row_index, remaining,
                            remaining, has_updates, force_fetch_row, <<>>, FALSE)
    IN [state |-> [current |-> r.current, row_index |-> r.row_index,
                   internal_index |-> r.row_index, initialized |-> TRUE],
        rows |-> r.rows, entire |-> r.entire]

\* a FetchUpdates that never refuses uncommitted updates
FetchUpdatesAllowed(upd, transaction, vector_index, rows, allow_updates, scan_committed) ==
    IF ~upd.present THEN [err |-> "", rows |-> rows]
    ELSE [err |-> "",
          rows |-> [i \in 1..Len(rows) |->
                     LET row == vector_index * STANDARD_VECTOR_SIZE + i - 1
                     IN IF scan_committed
                        THEN CommittedValue(upd.info, row, rows[i])
                        ELSE VisibleValue(upd.info, transaction, row, rows[i])]]

\* ColumnData::FetchUpdates: the overlay applied to the scanned rows of the
\* vector-block; err is the TransactionException of a forbidden uncommitted
\* update
FetchUpdates(upd, transaction, vector_index, rows, allow_updates, scan_committed) ==
    IF ~upd.present THEN [err |-> "", rows |-> rows]
    ELSE IF ~allow_updates /\ HasUncommittedUpdates(upd.info, vector_index)
    THEN [err |-> "TransactionException", rows |-> rows]
    ELSE [err |-> "",
          rows |-> [i \in 1..Len(rows) |->
                     LET row == vector_index * STANDARD_VECTOR_SIZE + i - 1
                     IN IF scan_committed
                        THEN CommittedValue(upd.info, row, rows[i])
                        ELSE VisibleValue(upd.info, transaction, row, rows[i])]]

\* a scan that tells the segment scan of no updates whatever the overlay
ScanVectorTUnaware(tree, cnt, upd, transaction, vector_index, state, scan_committed, allow_updates, force_fetch_row) ==
    LET vector_count == IF cnt >= vector_index * STANDARD_VECTOR_SIZE
                        THEN Min(STANDARD_VECTOR_SIZE,
                                 cnt - vector_index * STANDARD_VECTOR_SIZE)
                        ELSE STANDARD_VECTOR_SIZE
        s == ScanVector(tree, state, vector_count, FALSE, force_fetch_row)
        f == FetchUpdates(upd, transaction, vector_index, s.rows, allow_updates,
                          scan_committed)
    IN [state |-> s.state, err |-> f.err, rows |-> f.rows, raw |-> s.rows,
        entire |-> s.entire, vector_count |-> vector_count]

\* ColumnData::ScanVector<SCAN_COMMITTED, ALLOW_UPDATES>: vector_count of the
\* block in idx_t arithmetic (count - current_row wraps around when the block
\* starts past count), the segment scan, then the overlay
VectorCountOf(cnt, vector_size, vector_index) ==
    LET current_row == vector_index * vector_size
    IN IF cnt >= current_row THEN Min(vector_size, cnt - current_row)
       ELSE vector_size

VectorCount(cnt, vector_index) ==
    VectorCountOf(cnt, STANDARD_VECTOR_SIZE, vector_index)

ScanVectorT(tree, cnt, upd, transaction, vector_index, state, scan_committed, allow_updates, force_fetch_row) ==
    LET vector_count == VectorCount(cnt, vector_index)
        s == ScanVector(tree, state, vector_count, upd.present, force_fetch_row)
        f == FetchUpdates(upd, transaction, vector_index, s.rows, allow_updates,
                          scan_committed)
    IN [state |-> s.state, err |-> f.err, rows |-> f.rows, raw |-> s.rows,
        entire |-> s.entire, vector_count |-> vector_count]

\* a Fetch that starts at the row itself
UnalignedRow(col_start, row_id) == row_id

\* lines 530 and 531: the first row of the vector-block of row_id
AlignedRow(col_start, row_id) ==
    col_start +
        ((row_id - col_start) \div STANDARD_VECTOR_SIZE) * STANDARD_VECTOR_SIZE

\* ColumnData::Fetch: the aligned vector-block of row_id, decoded without the
\* overlay; err is the InternalException of GetSegment, cursor the row_index
\* of the state when Fetch returns
Fetch(tree, col_start, row_id) ==
    LET row_index == AlignedRow(col_start, row_id)
        current == IF row_id < col_start THEN 0 ELSE GetSegmentIndex(tree, row_index)
    IN IF current = 0
       THEN [err |-> "InternalException", rows |-> <<>>, row_index |-> row_index,
             cursor |-> row_index, entire |-> FALSE]
       ELSE LET s == ScanVector(tree,
                        [current |-> current, row_index |-> row_index,
                         internal_index |-> tree[current].start, initialized |-> FALSE],
                        STANDARD_VECTOR_SIZE, FALSE, FALSE)
            IN [err |-> "", rows |-> s.rows, row_index |-> row_index,
                cursor |-> s.state.row_index, entire |-> s.entire]

\* a row fetch that leaves the overlay out
FetchUpdateRowNone(upd, col_start, transaction, row_id, value) == value

\* ColumnData::FetchUpdateRow
FetchUpdateRow(upd, col_start, transaction, row_id, value) ==
    IF ~upd.present THEN value
    ELSE VisibleValue(upd.info, transaction, row_id - col_start, value)

\* ColumnData::FetchRow: one row of its segment, then the row's update
FetchRow(tree, col_start, upd, transaction, row_id) ==
    LET segment == GetSegmentIndex(tree, row_id)
    IN IF segment = 0 THEN [err |-> "InternalException", value |-> Unwritten]
       ELSE [err |-> "",
             value |-> FetchUpdateRow(upd, col_start, transaction, row_id,
                                      SegmentRead(tree[segment], row_id))]

\* ------------------------------------------------------------- checkpoint
\* a checkpoint scan that reads the segment and leaves the overlay out
CheckpointScanSegmentOnly(segment, row_index, row_group_start, cnt, upd) ==
    [i \in 1..cnt |-> SegmentRead(segment, row_index + i - 1)]

\* ColumnData::CheckpointScan: cnt rows of the segment from row_index, with
\* the committed updates of the overlay applied
CheckpointScan(segment, row_index, row_group_start, cnt, upd) ==
    LET scanned == [i \in 1..cnt |-> SegmentRead(segment, row_index + i - 1)]
    IN IF upd.present
       THEN [i \in 1..cnt |->
               CommittedValue(upd.info, row_index - row_group_start + i - 1, scanned[i])]
       ELSE scanned

\* ColumnDataCheckpointer::ScanSegments on one segment: CheckpointScan of one
\* vector after the other, from base_row_index on
RECURSIVE ScanSegment(_, _, _, _)
ScanSegment(segment, base_row_index, row_group_start, upd) ==
    IF base_row_index >= segment.count THEN <<>>
    ELSE LET cnt == Min(segment.count - base_row_index, STANDARD_VECTOR_SIZE)
         IN CheckpointScan(segment, segment.start + base_row_index,
                           row_group_start, cnt, upd)
            \o ScanSegment(segment, base_row_index + STANDARD_VECTOR_SIZE,
                           row_group_start, upd)

RECURSIVE ScanSegments(_, _, _)
ScanSegments(nodes, row_group_start, upd) ==
    IF nodes = <<>> THEN <<>>
    ELSE ScanSegment(Head(nodes), 0, row_group_start, upd)
         \o ScanSegments(Tail(nodes), row_group_start, upd)

\* the checkpointer re-encodes the scanned rows into sealed segments of up to
\* SegmentCapacity rows, the first at row_start
RECURSIVE WriteSegments(_, _)
WriteSegments(rows, row_start) ==
    IF rows = <<>> THEN <<>>
    ELSE LET n == Min(Len(rows), SegmentCapacity)
             chunk == SubSeq(rows, 1, n)
         IN <<CreatePersistentSegment(row_start, n, chunk, StatsOfRows(chunk))>>
            \o WriteSegments(SubSeq(rows, n + 1, Len(rows)), row_start + n)

\* ColumnDataCheckpointer::Checkpoint: the new tree and the merged statistics
Checkpointer(nodes, row_group_start, upd) ==
    LET rows == ScanSegments(nodes, row_group_start, upd)
    IN [new_tree |-> WriteSegments(rows, row_group_start),
        global_stats |-> StatsOfRows(rows)]

\* ------------------------------------------------------------ whole scans
\* ColumnData::InitializeScan
InitializeScanState(tree) ==
    LET current == IF tree = <<>> THEN 0 ELSE 1
        row_index == IF current # 0 THEN tree[current].start ELSE 0
    IN [current |-> current, row_index |-> row_index,
        internal_index |-> row_index, initialized |-> FALSE]

\* the vector-blocks 0, 1, 2, ... of the column scanned in order from
\* InitializeScan, each by ScanVector<scan_committed, TRUE>: the values and
\* the returned counts
RECURSIVE ScanAllLoop(_, _, _, _, _, _, _, _, _)
ScanAllLoop(tree, cnt, upd, transaction, state, vector_index, scan_committed, acc, counts) ==
    IF vector_index * STANDARD_VECTOR_SIZE >= cnt \/ state.current = 0
    THEN [rows |-> acc, counts |-> counts]
    ELSE LET r == ScanVectorT(tree, cnt, upd, transaction, vector_index, state,
                              scan_committed, TRUE, FALSE)
         IN ScanAllLoop(tree, cnt, upd, transaction, r.state, vector_index + 1,
                        scan_committed, acc \o r.rows, Append(counts, Len(r.rows)))

ScanAll(tree, cnt, upd, transaction, scan_committed) ==
    ScanAllLoop(tree, cnt, upd, transaction, InitializeScanState(tree), 0,
                scan_committed, <<>>, <<>>)

\* ---------------------------------------------------------------- results
Result(op, err, arg, txn, rows, aux) ==
    [op |-> op, err |-> err, arg |-> arg, txn |-> txn, rows |-> rows, aux |-> aux]

NoAux == [none |-> TRUE]

NoResult == Result("none", "", 0, 0, <<>>, NoAux)

\* ---------------------------------------------------------- data pointers
\* the record persisted for a segment of tuple_count rows at row_start
DataPointer(row_start, tuple_count) ==
    LET rows == [i \in 1..tuple_count |-> (i - 1) % Cardinality(Values)]
    IN [row_start |-> row_start, tuple_count |-> tuple_count, rows |-> rows,
        statistics |-> StatsOfRows(rows)]

RECURSIVE SumTuples(_)
SumTuples(data_pointers) ==
    IF data_pointers = <<>> THEN 0
    ELSE Head(data_pointers).tuple_count + SumTuples(Tail(data_pointers))

\* valid input of DeserializeColumn: the records are contiguous from the
\* column's start
RECURSIVE ContiguousPointers(_, _)
ContiguousPointers(data_pointers, row_start) ==
    IF data_pointers = <<>> THEN TRUE
    ELSE /\ Head(data_pointers).row_start = row_start
         /\ ContiguousPointers(Tail(data_pointers),
                               row_start + Head(data_pointers).tuple_count)

\* a loop that stops after the first data pointer
DeserializeLoopFirst(data_pointers, cnt, target_stats, tree) ==
    IF data_pointers = <<>>
    THEN [count |-> cnt, stats |-> target_stats, data |-> tree]
    ELSE LET data_pointer == Head(data_pointers)
         IN [count |-> cnt + data_pointer.tuple_count,
             stats |-> Merge(target_stats, data_pointer.statistics),
             data |-> AppendSegment(tree,
                         CreatePersistentSegment(data_pointer.row_start,
                             data_pointer.tuple_count, data_pointer.rows,
                             data_pointer.statistics))]

\* the loop of DeserializeColumn over the data pointers
RECURSIVE DeserializeLoop(_, _, _, _)
DeserializeLoop(data_pointers, cnt, target_stats, tree) ==
    IF data_pointers = <<>>
    THEN [count |-> cnt, stats |-> target_stats, data |-> tree]
    ELSE LET data_pointer == Head(data_pointers)
         IN DeserializeLoop(Tail(data_pointers),
                cnt + data_pointer.tuple_count,
                Merge(target_stats, data_pointer.statistics),
                AppendSegment(tree,
                    CreatePersistentSegment(data_pointer.row_start,
                        data_pointer.tuple_count, data_pointer.rows,
                        data_pointer.statistics)))

\* ----------------------------------------------------------------- actions
NoSnap == [data |-> <<>>, count |-> 0, stats |-> EmptyStats, row |-> 0]

\* the appending thread, the reading thread and the checkpointing thread
Threads == {"append", "read", "checkpoint"}

NoPending == [offset |-> 0, append_count |-> 0, copied_elements |-> 0, total |-> 0]

NoReading == [vector_index |-> 0, vector_count |-> 0, state |-> NullScanState,
              count |-> 0, written |-> 0, appending |-> FALSE]

NoLocks == [stats_lock |-> "none", update_lock |-> "none"]

NoNodes == [nodes |-> <<>>, new_tree |-> <<>>, global_stats |-> EmptyStats]

\* the threads that call Update, each for the transaction of its own session
Updaters == {"update1", "update2"}

TxnOf(t) == IF t = "update1" THEN 1 ELSE 2

\* an Update that has not begun: pc is where the call stands, row and value
\* what it writes, during whether a Checkpoint was running when it wrote
NoCall == [pc |-> "idle", row |-> 0, value |-> 0, err |-> "", during |-> FALSE]

\* the locals of ScanCommittedRange: has_updates, the offset in the row group
\* and the rows the segments gave
NoRange == [has_updates |-> FALSE, offset |-> 0, rows |-> <<>>]

\* made is the number of UpdateSegment objects constructed for the column
NoUpdating == [made |-> 0, call |-> [t \in Updaters |-> NoCall], range |-> NoRange]

\* the constructor: a column without a parent gets a statistics object
ColumnDataInit(parent) ==
    /\ start \in StartRows
    /\ count = 0
    /\ data = <<>>
    /\ stats = IF parent THEN NullStats ELSE EmptyStats
    /\ updates = NoUpdates
    /\ append_state = [current |-> 0]
    /\ scan_state = NullScanState
    /\ txns = [t \in Txns |-> 0]
    /\ clock = 0
    /\ last = NoResult
    /\ net_rows = 0
    /\ phase = "build"
    /\ snap = NoSnap
    /\ scan_log = <<>>
    /\ lock = "none"
    /\ pc = [t \in Threads |-> "idle"]
    /\ pending = NoPending
    /\ reading = NoReading
    /\ moved = NoNodes
    /\ locks = NoLocks
    /\ updating = NoUpdating

Init == ColumnDataInit(FALSE)

InitializeAppendCall ==
    LET r == InitializeAppendResult(data, start)
    IN /\ data' = r.data
       /\ append_state' = [current |-> r.current]
       /\ last' = Result("InitializeAppend", "", 0, 0, <<>>, NoAux)
       /\ UNCHANGED <<start, count, stats, updates, scan_state, txns, clock,
                      net_rows>>

InitializeAppend ==
    InitializeAppendCall /\ UNCHANGED caller

\* Append(state, vector, append_count) with the cursor InitializeAppend set
AppendData(append_count) ==
    /\ append_state.current # 0
    /\ LET r == AppendDataLoop(data, append_state.current, stats,
                               InputVector(append_count), 0, append_count)
       IN /\ count' = count + append_count
          /\ data' = r.data
          /\ stats' = r.stats
          /\ append_state' = [current |-> r.current]
    /\ net_rows' = net_rows + append_count
    /\ last' = Result("Append", "", append_count, 0, <<>>, NoAux)
    /\ UNCHANGED <<start, updates, scan_state, txns, clock>>

AppendOp(append_count) ==
    AppendData(append_count) /\ UNCHANGED caller

Append_ ==
    \E append_count \in 0..(MaxRows - count) : AppendOp(append_count)

\* a revert that leaves the segments after segment_index in the tree
RevertedTreeKeepsTail(tree, segment_index, start_row) ==
    [tree EXCEPT ![segment_index] = SegmentRevertAppend(@, start_row)]

\* a revert that erases the segment holding start_row with those after it
RevertedTreeErasedFrom(tree, segment_index, start_row) ==
    EraseSegments(tree, segment_index - 1)

\* a revert that erases the later segments and leaves the segment holding
\* start_row as long as it was
RevertedTreeUncut(tree, segment_index, start_row) ==
    EraseSegments(tree, segment_index)

\* the tree RevertAppend leaves: the segments after the one holding start_row
\* are erased and that one is cut back to start_row
RevertedTree(tree, segment_index, start_row) ==
    [EraseSegments(tree, segment_index) EXCEPT ![segment_index] =
        SegmentRevertAppend(@, start_row)]

\* a revert that never takes start_row for the end of the column
NothingAppendedNever(last_segment, start_row) == FALSE

\* line 508: start_row is at or after the end of the last segment; the
\* D_ASSERT of line 510, that it is at the end, is compiled out of a release
\* build
NothingAppended(last_segment, start_row) ==
    start_row >= last_segment.start + last_segment.count

\* RevertAppend(start_row); the tree is not empty (GetLastSegment is
\* dereferenced)
RevertAppendCall(start_row) ==
    /\ ~IsEmpty(data)
    /\ LET last_segment == GetLastSegment(data)
           segment_index == GetSegmentIndex(data, start_row)
       IN IF NothingAppended(last_segment, start_row)
          THEN /\ last' = Result("RevertAppend", "", start_row, 0, <<>>,
                                 [noop |-> TRUE])
               /\ UNCHANGED <<count, data, append_state, scan_state, net_rows>>
          ELSE IF segment_index = 0
          THEN /\ last' = Result("RevertAppend", "InternalException", start_row, 0,
                                 <<>>, [noop |-> FALSE])
               /\ UNCHANGED <<count, data, append_state, scan_state, net_rows>>
          ELSE LET reverted == RevertedTree(data, segment_index, start_row)
               IN /\ data' = reverted
                  /\ count' = start_row - start
                  /\ net_rows' = net_rows - (SumCounts(data) - SumCounts(reverted))
                  /\ append_state' = IF append_state.current > segment_index
                                     THEN [current |-> 0] ELSE append_state
                  /\ scan_state' = IF \/ scan_state.current > segment_index
                                      \/ scan_state.row_index > start_row
                                   THEN NullScanState ELSE scan_state
                  /\ last' = Result("RevertAppend", "", start_row, 0, <<>>,
                                    [noop |-> FALSE,
                                     erased |-> Len(data) - segment_index])
    /\ UNCHANGED <<start, stats, updates, txns, clock>>

RevertAppendOp(start_row) ==
    RevertAppendCall(start_row) /\ UNCHANGED caller

RevertAppend ==
    \E start_row \in (start - 1)..(start + count + 1) :
        start_row >= 0 /\ RevertAppendOp(start_row)

\* a SetStart that moves the first segment only
RebaseFirst(tree, row_start) ==
    IF tree = <<>> THEN <<>>
    ELSE <<[Head(tree) EXCEPT !.start = row_start]>> \o Tail(tree)

\* the loop of SetStart: every segment starts where the one before it ends
RECURSIVE Rebase(_, _)
Rebase(tree, row_start) ==
    IF tree = <<>> THEN <<>>
    ELSE <<[Head(tree) EXCEPT !.start = row_start]>>
         \o Rebase(Tail(tree), row_start + Head(tree).count)

SetStartOp(new_start) ==
    /\ UNCHANGED caller
    /\ new_start # start
    /\ start' = new_start
    /\ data' = Rebase(data, new_start)
    /\ scan_state' = NullScanState
    /\ last' = Result("SetStart", "", new_start, 0, <<>>, NoAux)
    /\ UNCHANGED <<count, stats, updates, append_state, txns, clock, net_rows>>

SetStart ==
    \E new_start \in StartRows : SetStartOp(new_start)

\* the result Checkpoint hands back, with what a committed scan of the whole
\* column returned before it and what the column held
CheckpointResult(empty, global_stats) ==
    Result("Checkpoint", "", 0, 0, <<>>,
           [empty |-> empty, global_stats |-> global_stats,
            before |-> ScanAll(data, count, updates, TransactionData(0, 0), TRUE).rows,
            persistent |-> {i \in 1..Len(data) :
                              data[i].segment_type = "PERSISTENT" /\ data[i].count > 0},
            transient |-> {i \in 1..Len(data) :
                              data[i].segment_type = "TRANSIENT" /\ data[i].count > 0},
            committed |-> {e.row : e \in {x \in updates.info : x.version > 0}},
            had_updates |-> updates.present])

\* a checkpoint that leaves the overlay as it is
UnclearedUpdates == updates

\* ColumnData::ClearUpdates
ClearedUpdates == NoUpdates

Checkpoint ==
    LET nodes == data
        c == Checkpointer(nodes, start, updates)
    IN /\ UNCHANGED caller
       /\ IF nodes = <<>>
          THEN /\ last' = CheckpointResult(TRUE, EmptyStats)
               /\ UNCHANGED <<start, count, data, stats, updates, append_state,
                              scan_state, txns, clock, net_rows>>
          ELSE /\ data' = c.new_tree
               /\ updates' = ClearedUpdates
               /\ append_state' = [current |-> 0]
               /\ scan_state' = NullScanState
               /\ last' = CheckpointResult(FALSE, c.global_stats)
               /\ UNCHANGED <<start, count, stats, txns, clock, net_rows>>

\* DeserializeColumn on the column Deserialize has just created
DeserializeColumnOp(data_pointers) ==
    /\ UNCHANGED caller
    /\ data = <<>> /\ count = 0 /\ last.op = "none"
    /\ LET r == DeserializeLoop(data_pointers, 0, stats, data)
       IN /\ count' = r.count
          /\ stats' = r.stats
          /\ data' = r.data
    /\ net_rows' = net_rows + SumTuples(data_pointers)
    /\ last' = Result("DeserializeColumn", "", Len(data_pointers), 0, <<>>,
                      [data_pointers |-> data_pointers])
    /\ UNCHANGED <<start, updates, append_state, scan_state, txns, clock>>

\* the data pointers given: each record follows the one before, or leaves a
\* gap of a row, or overlaps it by a row
DataPointerInputs ==
    LET One == {<<DataPointer(start + skew, n)>> :
                    skew \in 0..1, n \in 1..SegmentCapacity}
        Two == {p \o <<DataPointer(p[1].row_start + p[1].tuple_count + skew, n)>> :
                    p \in One, skew \in -1..1, n \in 1..SegmentCapacity}
    IN One \cup Two

\* Deserialize of a persisted column: its records are contiguous from start
DeserializeColumn ==
    \E data_pointers \in DataPointerInputs :
        /\ ContiguousPointers(data_pointers, start)
        /\ SumTuples(data_pointers) <= MaxRows
        /\ DeserializeColumnOp(data_pointers)

\* Deserialize of records that need not follow one another
DeserializeAny ==
    \E data_pointers \in DataPointerInputs :
        /\ SumTuples(data_pointers) <= MaxRows
        /\ DeserializeColumnOp(data_pointers)

\* ----------------------------------------------------------- transactions
\* Every transaction id names a session that always has a transaction open:
\* txns[t] is the start_time of the open one. The commit of t stamps its
\* overlay entries with the next commit id, and the session's next
\* transaction starts at the current timestamp.
CommitTransaction(t) ==
    /\ UNCHANGED caller
    /\ LET writes == \E e \in updates.info : e.version = 0 /\ e.txn = t
       IN IF writes
          THEN /\ clock < MaxClock
               /\ clock' = clock + 1
               /\ updates' = [updates EXCEPT
                                !.info = CommitEntries(@, t, clock + 1)]
               /\ txns' = [txns EXCEPT ![t] = clock + 1]
          ELSE /\ txns[t] # clock
               /\ txns' = [txns EXCEPT ![t] = clock]
               /\ UNCHANGED <<clock, updates>>
    /\ last' = Result("Commit", "", 0, t, <<>>, NoAux)
    /\ UNCHANGED <<start, count, data, stats, append_state, scan_state, net_rows>>

Commit ==
    \E t \in Txns : CommitTransaction(t)

TransactionOf(t) == TransactionData(t, txns[t])

\* ------------------------------------------------------------------ update
\* ColumnData::Update of one row (update_count = 1): Fetch of the row's
\* vector-block for the base values, then UpdateInternal
UpdateOp(t, row_id, value) ==
    /\ UNCHANGED caller
    /\ LET f == Fetch(data, start, row_id)
           row == row_id - start
           conflict == UpdateConflict(updates.info, TransactionOf(t), row)
           info == IF conflict THEN updates.info
                   ELSE UpdateSegmentUpdate(updates.info, TransactionOf(t), row, value)
           old == [u \in Txns |->
                     FetchRow(data, start, updates, TransactionOf(u), row_id).value]
       IN IF f.err # ""
          THEN /\ last' = Result("Update", f.err, row_id, t, <<value>>, NoAux)
               /\ UNCHANGED updates
          ELSE /\ Cardinality(info) <= MaxUpdates
               /\ updates' = [present |-> TRUE, info |-> info]
               /\ last' = Result("Update",
                                 IF conflict THEN "TransactionException" ELSE "",
                                 row_id, t, <<value>>,
                                 [old |-> old, created |-> ~updates.present,
                                  base |-> f.rows[row_id - f.row_index + 1]])
    /\ UNCHANGED <<start, count, data, stats, append_state, scan_state, txns,
                   clock, net_rows>>

\* the value written: the one after the row's newest committed value
NextValue(row_id) ==
    LET f == Fetch(data, start, row_id)
        base == IF f.err = "" /\ row_id - f.row_index + 1 <= Len(f.rows)
                THEN f.rows[row_id - f.row_index + 1] ELSE 0
    IN (CommittedValue(updates.info, row_id - start, base) + 1)
           % Cardinality(Values)

Update ==
    \E t \in Txns, row_id \in start..(start + count - 1) :
        UpdateOp(t, row_id, NextValue(row_id))

\* ------------------------------------------------------------------- reads
\* ColumnData::InitializeScanWithOffset: 0 as current stands for the
\* InternalException of GetSegment
InitializeScanWithOffsetState(tree, row_idx) ==
    LET current == GetSegmentIndex(tree, row_idx)
    IN [current |-> current, row_index |-> row_idx,
        internal_index |-> IF current = 0 THEN 0 ELSE tree[current].start,
        initialized |-> FALSE]

\* ScanCommitted(vector_index, state, result, allow_updates) with a cursor
\* that InitializeScanWithOffset has put at the start of the vector-block
ScanCommittedOp(vector_index, allow_updates) ==
    /\ UNCHANGED caller
    /\ vector_index * STANDARD_VECTOR_SIZE < count
    /\ LET state == InitializeScanWithOffsetState(data,
                        start + vector_index * STANDARD_VECTOR_SIZE)
           r == ScanVectorT(data, count, updates, TransactionData(0, 0),
                            vector_index, state, TRUE, allow_updates, FALSE)
       IN /\ state.current # 0
          /\ last' = Result("ScanCommitted", r.err, vector_index, 0,
                            IF r.err = "" THEN r.rows ELSE <<>>,
                            [allow_updates |-> allow_updates, raw |-> r.raw,
                             entire |-> r.entire])
    /\ UNCHANGED <<start, count, data, stats, updates, append_state, scan_state,
                   txns, clock, net_rows>>

ScanCommitted ==
    \E vector_index \in 0..(MaxRows \div STANDARD_VECTOR_SIZE),
       allow_updates \in BOOLEAN : ScanCommittedOp(vector_index, allow_updates)

\* Scan(transaction, vector_index, state, result) with such a cursor
TransactionScanOp(t, vector_index) ==
    /\ UNCHANGED caller
    /\ vector_index * STANDARD_VECTOR_SIZE < count
    /\ LET state == InitializeScanWithOffsetState(data,
                        start + vector_index * STANDARD_VECTOR_SIZE)
           r == ScanVectorT(data, count, updates, TransactionOf(t),
                            vector_index, state, FALSE, TRUE, FALSE)
       IN /\ state.current # 0
          /\ last' = Result("Scan", r.err, vector_index, t, r.rows,
                            [raw |-> r.raw, entire |-> r.entire])
    /\ UNCHANGED <<start, count, data, stats, updates, append_state, scan_state,
                   txns, clock, net_rows>>

TransactionScan ==
    \E t \in Txns, vector_index \in 0..(MaxRows \div STANDARD_VECTOR_SIZE) :
        TransactionScanOp(t, vector_index)

FetchOp(row_id) ==
    /\ UNCHANGED caller
    /\ LET f == Fetch(data, start, row_id)
       IN last' = Result("Fetch", f.err, row_id, 0, f.rows,
                         [row_index |-> f.row_index, cursor |-> f.cursor,
                          entire |-> f.entire])
    /\ UNCHANGED <<start, count, data, stats, updates, append_state, scan_state,
                   txns, clock, net_rows>>

Fetch_ ==
    \E row_id \in start..(start + count) : FetchOp(row_id)

FetchRowOp(t, row_id) ==
    /\ UNCHANGED caller
    /\ LET f == FetchRow(data, start, updates, TransactionOf(t), row_id)
       IN last' = Result("FetchRow", f.err, row_id, t,
                         IF f.err = "" THEN <<f.value>> ELSE <<>>, NoAux)
    /\ UNCHANGED <<start, count, data, stats, updates, append_state, scan_state,
                   txns, clock, net_rows>>

FetchRow_ ==
    \E t \in Txns, row_id \in start..(start + count) : FetchRowOp(t, row_id)

\* InitializeScanWithOffset(state, row_idx): GetSegment throws before the
\* state is assigned
InitializeScanWithOffsetOp(row_idx) ==
    /\ UNCHANGED caller
    /\ LET state == InitializeScanWithOffsetState(data, row_idx)
       IN IF state.current = 0
          THEN /\ last' = Result("InitializeScanWithOffset", "InternalException",
                                 row_idx, 0, <<>>, NoAux)
               /\ UNCHANGED scan_state
          ELSE /\ last' = Result("InitializeScanWithOffset", "", row_idx, 0, <<>>,
                                 NoAux)
               /\ scan_state' = state
    /\ UNCHANGED <<start, count, data, stats, updates, append_state, txns, clock,
                   net_rows>>

\* the row ids the reads are given: those of the column, the row before its
\* start and the two rows after its end
RowIds == {row_id \in (start - 1)..(start + count + 1) : row_id >= 0}

FetchAny ==
    \E row_id \in RowIds : FetchOp(row_id)

FetchRowAny ==
    \E row_id \in RowIds : FetchRowOp(1, row_id)

InitializeScanWithOffset ==
    \E row_idx \in RowIds : InitializeScanWithOffsetOp(row_idx)

\* InitializeScan(state) at any time
InitializeScanAny ==
    /\ UNCHANGED caller
    /\ scan_state' = InitializeScanState(data)
    /\ last' = Result("InitializeScan", "", 0, 0, <<>>, NoAux)
    /\ UNCHANGED <<start, count, data, stats, updates, append_state, txns, clock,
                   net_rows>>

\* the most rows one ScanCount asks for
MaxScanCount == 3

\* ScanCount(state, result, scan_count), lines 373 to 380, with the cursor of
\* the scan in progress: nothing is done for a scan_count of 0, ScanVector is
\* called without updates otherwise
ScanCountOp(scan_count) ==
    /\ UNCHANGED caller
    /\ scan_state.current # 0
    /\ ~updates.present
    /\ LET s == ScanVector(data, scan_state, scan_count, FALSE, FALSE)
       IN /\ scan_state' = IF scan_count = 0 THEN scan_state ELSE s.state
          /\ last' = Result("ScanCount", "", scan_count, 0,
                            IF scan_count = 0 THEN <<>> ELSE s.rows,
                            [row_index |-> scan_state.row_index,
                             current |-> scan_state.current])
    /\ UNCHANGED <<start, count, data, stats, updates, append_state, txns, clock,
                   net_rows>>

ScanCount ==
    /\ scan_state.current # 0
    /\ \E scan_count \in 0..MaxScanCount : ScanCountOp(scan_count)

\* --------------------------------------------------------- specifications
\* the structural operations of a column
Next ==
    \/ InitializeAppend
    \/ Append_
    \/ RevertAppend
    \/ SetStart
    \/ Checkpoint
    \/ DeserializeColumn

Spec == Init /\ [][Next]_vars

\* the update overlay on a column of up to MaxUpdateRows rows from row 0,
\* which grows a row at a time and is reverted a row at a time
InitUpdate == Init /\ start = 0

AppendSmall ==
    count < MaxUpdateRows /\ AppendOp(1)

\* the rows reverted are rows of a transient segment
RevertSmall ==
    \E start_row \in {start + count - 1, start + count} :
        /\ start_row >= 0
        /\ LET segment_index == GetSegmentIndex(data, start_row)
           IN segment_index # 0 => data[segment_index].segment_type = "TRANSIENT"
        /\ RevertAppendOp(start_row)

NextUpdate ==
    \/ InitializeAppend
    \/ AppendSmall
    \/ RevertSmall
    \/ Checkpoint
    \/ Commit
    \/ Update
    \/ ScanCommitted
    \/ TransactionScan
    \/ Fetch_

SpecUpdate == InitUpdate /\ [][NextUpdate]_vars

\* an append that is reverted and made again: the caller builds a column,
\* appends (begun), reverts to the row the append began at (reverted), calls
\* InitializeAppend (ready) and appends rows again (done)
BuildDeserialize == phase = "build" /\ DeserializeColumn

BuildInitializeAppend == phase = "build" /\ InitializeAppend

BuildAppend == phase = "build" /\ Append_

BuildCheckpoint == phase = "build" /\ Checkpoint

BeginAppend ==
    /\ phase = "build"
    /\ \E append_count \in 1..(MaxRows - 1 - count) : AppendData(append_count)
    /\ phase' = "begun"
    /\ snap' = [data |-> data, count |-> count, stats |-> stats,
                row |-> start + count]
    /\ UNCHANGED <<scan_log, threads>>

RevertBegun ==
    /\ phase = "begun"
    /\ RevertAppendCall(snap.row)
    /\ phase' = "reverted"
    /\ UNCHANGED <<snap, scan_log, threads>>

InitializeAgain ==
    /\ phase = "reverted"
    /\ InitializeAppendCall
    /\ phase' = "ready"
    /\ UNCHANGED <<snap, scan_log, threads>>

AppendAgain ==
    /\ phase = "ready"
    /\ \E append_count \in 1..(MaxRows - count) : AppendData(append_count)
    /\ phase' = "done"
    /\ UNCHANGED <<snap, scan_log, threads>>

NextRevert ==
    \/ BuildDeserialize
    \/ BuildInitializeAppend
    \/ BuildAppend
    \/ BuildCheckpoint
    \/ BeginAppend
    \/ RevertBegun
    \/ InitializeAgain
    \/ AppendAgain

SpecRevert == Init /\ [][NextRevert]_vars

\* a scan of the whole column: the caller builds a column, calls
\* InitializeScan and scans the vector-blocks 0, 1, 2, ... in order
BuildRevert == phase = "build" /\ RevertAppend

InitializeScan ==
    /\ phase = "build"
    /\ data # <<>>
    /\ scan_state' = InitializeScanState(data)
    /\ scan_log' = <<>>
    /\ phase' = "scan"
    /\ last' = Result("InitializeScan", "", 0, 0, <<>>, NoAux)
    /\ UNCHANGED <<start, count, data, stats, updates, append_state, txns, clock,
                   net_rows, snap, threads>>

\* Scan(transaction, vector_index, state, result) of the next vector-block
ScanNext(t) ==
    /\ phase = "scan"
    /\ Len(scan_log) * STANDARD_VECTOR_SIZE < count
    /\ LET vector_index == Len(scan_log)
           r == ScanVectorT(data, count, updates, TransactionOf(t), vector_index,
                            scan_state, FALSE, TRUE, FALSE)
       IN /\ scan_state' = r.state
          /\ scan_log' = Append(scan_log, Len(r.rows))
          /\ last' = Result("Scan", r.err, vector_index, t, r.rows, [raw |-> r.raw])
    /\ UNCHANGED <<start, count, data, stats, updates, append_state, txns, clock,
                   net_rows, phase, snap, threads>>

Scan ==
    \E t \in Txns : ScanNext(t)

\* the scan is over when the blocks scanned cover count rows
FinishScan ==
    /\ phase = "scan"
    /\ Len(scan_log) * STANDARD_VECTOR_SIZE >= count
    /\ phase' = "build"
    /\ scan_log' = <<>>
    /\ scan_state' = NullScanState
    /\ last' = Result("FinishScan", "", 0, 0, <<>>, NoAux)
    /\ UNCHANGED <<start, count, data, stats, updates, append_state, txns, clock,
                   net_rows, snap, threads>>

NextScan ==
    \/ BuildDeserialize
    \/ BuildInitializeAppend
    \/ BuildAppend
    \/ BuildRevert
    \/ BuildCheckpoint
    \/ InitializeScan
    \/ Scan
    \/ FinishScan

SpecScan == Init /\ [][NextScan]_vars

\* --------------------------------------------------------------- threads
\* One thread appends (and reverts), one reads and one checkpoints. The calls
\* are taken a step at a time: a step is what a thread does between two
\* points at which another thread can see or change what it works on.
Between == pc["checkpoint"] \in {"moved", "written"}

\* the segments the append cursor points into: the nodes Checkpoint has moved
\* out of the tree while it works on them, the tree otherwise
CursorNodes == IF Between THEN moved.nodes ELSE data

StoreCursorNodes(new_nodes) ==
    IF Between
    THEN moved' = [moved EXCEPT !.nodes = new_nodes] /\ UNCHANGED data
    ELSE data' = new_nodes /\ UNCHANGED moved

\* InitializeAppend holds the lock of the tree from its first line to its last
ThreadInitializeAppend ==
    /\ pc["append"] = "idle"
    /\ lock = "none"
    /\ InitializeAppendCall
    /\ UNCHANGED caller

\* AppendData, line 482: count is raised by append_count
AppendDataBegin ==
    /\ append_state.current # 0 /\ append_state.current <= Len(CursorNodes)
    /\ \E append_count \in 1..(MaxRows - count) :
          /\ count' = count + append_count
          /\ net_rows' = net_rows + append_count
          /\ pending' = [offset |-> 0, append_count |-> append_count,
                         copied_elements |-> 0, total |-> append_count]
          /\ last' = Result("AppendData", "", append_count, 0, <<>>, NoAux)
    /\ pc' = [pc EXCEPT !["append"] = "copy"]
    /\ UNCHANGED <<start, data, stats, updates, append_state, scan_state, txns,
                   clock, phase, snap, scan_log, lock, reading, moved,
                   locks, updating>>

\* AppendData called with the caller's statistics, no lock of the column held
AppendBegin ==
    pc["append"] = "idle" /\ AppendDataBegin

\* where AppendData returns to: into Append(state, vector, append_count), which
\* holds stats_lock, or to the caller
AppendReturn == IF locks.stats_lock = "append" THEN "leave" ELSE "idle"

\* line 485, state.current->Append: the rows are written into the segment
AppendCopy ==
    /\ pc["append"] = "copy"
    /\ LET segment == CursorNodes[append_state.current]
       IN /\ StoreCursorNodes([CursorNodes EXCEPT ![append_state.current] =
                 SegmentWrite(segment, InputVector(pending.total), pending.offset,
                              pending.append_count)])
          /\ pending' = [pending EXCEPT !.copied_elements =
                            SegmentCopied(segment, pending.append_count)]
    /\ pc' = [pc EXCEPT !["append"] = "copied"]
    /\ UNCHANGED <<start, count, stats, updates, append_state, scan_state, txns,
                   clock, last, net_rows, phase, snap, scan_log, lock, reading,
                   locks, updating>>

\* the segment raises its count over the rows written; lines 486 to 490
AppendCounted ==
    /\ pc["append"] = "copied"
    /\ LET segment == SegmentRaiseCount(CursorNodes[append_state.current])
       IN /\ StoreCursorNodes([CursorNodes EXCEPT ![append_state.current] = segment])
          /\ stats' = Merge(stats, segment.stats)
    /\ pc' = [pc EXCEPT !["append"] =
                 IF pending.copied_elements = pending.append_count
                 THEN AppendReturn ELSE "grow"]
    /\ UNCHANGED <<start, count, updates, append_state, scan_state, txns, clock,
                   last, net_rows, phase, snap, scan_log, lock, pending, reading,
                   locks, updating>>

\* lines 493 to 500: under the lock of the tree a transient segment is
\* appended and becomes the cursor's segment
AppendGrow ==
    /\ pc["append"] = "grow"
    /\ lock = "none"
    /\ Len(data) < MaxSegments
    /\ LET segment == CursorNodes[append_state.current]
           tree == AppendTransientSegment(data, segment.start + segment.count)
       IN /\ data' = tree
          /\ append_state' = [current |-> Len(tree)]
    /\ pending' = [pending EXCEPT
                      !.offset = @ + pending.copied_elements,
                      !.append_count = @ - pending.copied_elements]
    /\ pc' = [pc EXCEPT !["append"] = "copy"]
    /\ UNCHANGED <<start, count, stats, updates, scan_state, txns, clock, last,
                   net_rows, phase, snap, scan_log, lock, reading, moved,
                   locks, updating>>

\* RevertAppend holds the lock of the tree from its first line to its last
ThreadRevertAppend ==
    /\ pc["append"] = "idle"
    /\ lock = "none"
    /\ \E start_row \in (start + count - 1)..(start + count) :
          start_row >= 0 /\ RevertAppendCall(start_row)
    /\ UNCHANGED caller

\* the rows written into the segments of the tree
RECURSIVE RowsWritten(_)
RowsWritten(tree) ==
    IF tree = <<>> THEN 0 ELSE Len(Head(tree).rows) + RowsWritten(Tail(tree))

\* ScanVector<>, lines 333 and 334: the reader takes vector_count from count
ReadCount ==
    /\ pc["read"] = "idle"
    /\ \E vector_index \in 0..(MaxRows \div STANDARD_VECTOR_SIZE) :
          LET row_idx == start + vector_index * STANDARD_VECTOR_SIZE
          IN /\ GetSegmentIndex(data, row_idx) # 0
             /\ reading' = [vector_index |-> vector_index,
                            vector_count |-> VectorCount(count, vector_index),
                            state |-> InitializeScanWithOffsetState(data, row_idx),
                            count |-> count,
                            written |-> RowsWritten(data),
                            appending |-> pc["append"] # "idle"]
    /\ pc' = [pc EXCEPT !["read"] = "scan"]
    /\ UNCHANGED <<start, count, data, stats, updates, append_state, scan_state,
                   txns, clock, last, net_rows, phase, snap, scan_log, lock,
                   pending, moved,
                   locks, updating>>

\* lines 336 to 338: ScanVector of vector_count rows, then the overlay
ReadScan ==
    /\ pc["read"] = "scan"
    /\ LET s == ScanVector(data, reading.state, reading.vector_count,
                           updates.present, FALSE)
           f == FetchUpdates(updates, TransactionData(0, 0), reading.vector_index,
                             s.rows, TRUE, FALSE)
       IN last' = Result("ScanVector", f.err, reading.vector_index, 0, f.rows,
                         [vector_count |-> reading.vector_count,
                          appending |-> pc["append"]])
    /\ pc' = [pc EXCEPT !["read"] = "idle"]
    /\ UNCHANGED <<start, count, data, stats, updates, append_state, scan_state,
                   txns, clock, net_rows, phase, snap, scan_log, lock, pending,
                   reading, moved,
                   locks, updating>>

\* an AppendData left working on a destroyed segment: what it does is
\* undefined; it may never return, or return having written into freed memory
AppendFreed ==
    /\ pc["append"] = "undefined"
    /\ pc' = [pc EXCEPT !["append"] = AppendReturn]
    /\ pending' = NoPending
    /\ UNCHANGED <<start, count, data, stats, updates, append_state, scan_state,
                   txns, clock, last, net_rows, phase, snap, scan_log, lock,
                   reading, moved,
                   locks, updating>>

\* Checkpoint, line 619: the lock of the tree is taken
CheckpointLock ==
    /\ pc["checkpoint"] = "idle"
    /\ lock = "none"
    /\ lock' = "checkpoint"
    /\ pc' = [pc EXCEPT !["checkpoint"] = "locked"]
    /\ UNCHANGED <<start, count, data, stats, updates, append_state, scan_state,
                   txns, clock, last, net_rows, phase, snap, scan_log, pending,
                   reading, moved,
                   locks, updating>>

\* a Checkpoint that lets go of the lock once the segments are moved out
ReleasedAfterMove == "none"

\* the lock l of line 619 is held until Checkpoint returns
HeldAfterMove == "checkpoint"

\* lines 620 to 624: the segments are moved out of the tree; a Checkpoint of an
\* empty tree returns
CheckpointMove ==
    /\ pc["checkpoint"] = "locked"
    /\ IF data = <<>>
       THEN /\ lock' = "none"
            /\ pc' = [pc EXCEPT !["checkpoint"] = "idle"]
            /\ last' = Result("CheckpointEmpty", "", 0, 0, <<>>, NoAux)
            /\ UNCHANGED <<data, moved>>
       ELSE /\ moved' = [nodes |-> data, new_tree |-> <<>>, global_stats |-> EmptyStats]
            /\ data' = <<>>
            /\ lock' = HeldAfterMove
            /\ pc' = [pc EXCEPT !["checkpoint"] = "moved"]
            /\ UNCHANGED last
    /\ UNCHANGED <<start, count, stats, updates, append_state, scan_state, txns,
                   clock, net_rows, phase, snap, scan_log, pending, reading,
                   locks, updating>>

\* lines 626 and 627: the checkpointer scans the nodes and writes the new tree
CheckpointWrite ==
    /\ pc["checkpoint"] = "moved"
    /\ LET c == Checkpointer(moved.nodes, start, updates)
       IN moved' = [moved EXCEPT !.new_tree = c.new_tree,
                                 !.global_stats = c.global_stats]
    /\ pc' = [pc EXCEPT !["checkpoint"] = "written"]
    /\ UNCHANGED <<start, count, data, stats, updates, append_state, scan_state,
                   txns, clock, last, net_rows, phase, snap, scan_log, lock,
                   pending, reading,
                   locks, updating>>

\* lines 630 to 633: Replace, ClearUpdates and the return, which lets go of
\* the lock; the nodes moved out are destroyed, and an AppendData that is
\* still working on one of them works on freed memory from here on
CheckpointReplace ==
    /\ pc["checkpoint"] = "written"
    /\ locks.update_lock = "none"
    /\ data' = moved.new_tree
    /\ updates' = ClearedUpdates
    /\ moved' = NoNodes
    /\ lock' = "none"
    /\ append_state' = [current |-> 0]
    /\ scan_state' = NullScanState
    /\ pc' = [pc EXCEPT !["checkpoint"] = "idle",
                        !["append"] = IF @ = "idle" THEN "idle" ELSE "undefined"]
    /\ last' = Result("CheckpointReplace", "", 0, 0, <<>>,
                      [global_stats |-> moved.global_stats])
    /\ UNCHANGED <<start, count, stats, txns, clock, net_rows, phase, snap,
                   scan_log, pending, reading,
                   locks, updating>>

\* ------------------------------------------------- stats_lock, update_lock
\* a call that takes no lock of the statistics
StatsLockFree(t) == "none"

\* lock_guard<mutex> l(stats_lock): the calling thread holds stats_lock until
\* the call returns
StatsLockGuard(t) == t

\* Append(state, vector, append_count), lines 413 to 418: stats_lock is taken
\* and Append, then AppendData, is called with the column's statistics
AppendEnter ==
    /\ pc["append"] = "idle"
    /\ HasStatistics(stats)
    /\ locks.stats_lock = "none"
    /\ append_state.current # 0 /\ append_state.current <= Len(CursorNodes)
    /\ count < MaxRows
    /\ locks' = [locks EXCEPT !.stats_lock = StatsLockGuard("append")]
    /\ pc' = [pc EXCEPT !["append"] = "enter"]
    /\ UNCHANGED <<start, count, data, stats, updates, append_state, scan_state,
                   txns, clock, last, net_rows, phase, snap, scan_log, lock,
                   pending, reading, moved, updating>>

AppendEntered ==
    pc["append"] = "enter" /\ AppendDataBegin

\* line 419: Append returns and its lock_guard lets go of stats_lock
AppendLeave ==
    /\ pc["append"] = "leave"
    /\ locks' = [locks EXCEPT !.stats_lock = "none"]
    /\ pc' = [pc EXCEPT !["append"] = "idle"]
    /\ UNCHANGED <<start, count, data, stats, updates, append_state, scan_state,
                   txns, clock, last, net_rows, phase, snap, scan_log, lock,
                   pending, reading, moved, updating>>

\* TableFilter::CheckStatistics of the filter "= constant" on a zone map
CheckStatistics(statistics, constant) ==
    IF statistics = EmptyStats THEN "FILTER_ALWAYS_FALSE"
    ELSE IF constant < statistics[1] \/ constant > statistics[2]
    THEN "FILTER_ALWAYS_FALSE"
    ELSE "NO_PRUNING_POSSIBLE"

\* CheckZonemap, lines 422 to 425: stats_lock is taken
CheckZonemapLock ==
    /\ pc["read"] = "idle"
    /\ HasStatistics(stats)
    /\ locks.stats_lock = "none"
    /\ locks' = [locks EXCEPT !.stats_lock = StatsLockGuard("read")]
    /\ pc' = [pc EXCEPT !["read"] = "filter"]
    /\ UNCHANGED <<start, count, data, stats, updates, append_state, scan_state,
                   txns, clock, last, net_rows, phase, snap, scan_log, lock,
                   pending, reading, moved, updating>>

\* lines 426 to 431: the filter is evaluated on the statistics, and the return
\* lets go of stats_lock
CheckZonemapFilter ==
    /\ pc["read"] = "filter"
    /\ \E constant \in Values :
          LET propagate_result == CheckStatistics(stats, constant)
          IN last' = Result("CheckZonemap", "", constant, 0, <<>>,
                            [result |-> propagate_result \notin
                                {"FILTER_ALWAYS_FALSE", "FILTER_FALSE_OR_NULL"}])
    /\ locks' = [locks EXCEPT !.stats_lock = "none"]
    /\ pc' = [pc EXCEPT !["read"] = "idle"]
    /\ UNCHANGED <<start, count, data, stats, updates, append_state, scan_state,
                   txns, clock, net_rows, phase, snap, scan_log, lock, pending,
                   reading, moved, updating>>

\* Update, lines 551 to 556, and UpdateInternal, line 324: Fetch has decoded
\* the base vector of the first row, and update_lock is taken
UpdateInternalLock ==
    /\ pc["read"] = "idle"
    /\ locks.update_lock = "none"
    /\ Fetch(data, start, start).err = ""
    /\ Fetch(data, start, start).rows # <<>>
    /\ locks' = [locks EXCEPT !.update_lock = "read"]
    /\ pc' = [pc EXCEPT !["read"] = "update"]
    /\ last' = Result("Fetch", "", start, 0, Fetch(data, start, start).rows, NoAux)
    /\ UNCHANGED <<start, count, data, stats, updates, append_state, scan_state,
                   txns, clock, net_rows, phase, snap, scan_log, lock, pending,
                   reading, moved, updating>>

\* UpdateInternal, lines 325 to 329: the overlay is created when it is absent,
\* UpdateSegment::Update is called, and the return lets go of update_lock
UpdateInternal ==
    /\ pc["read"] = "update"
    /\ updates' = [present |-> TRUE,
                   info |-> UpdateSegmentUpdate(updates.info, TransactionOf(1), 0,
                                                NextValue(start))]
    /\ locks' = [locks EXCEPT !.update_lock = "none"]
    /\ pc' = [pc EXCEPT !["read"] = "idle"]
    /\ UNCHANGED <<start, count, data, stats, append_state, scan_state, txns,
                   clock, last, net_rows, phase, snap, scan_log, lock, pending,
                   reading, moved, updating>>

\* ------------------------------------------------------ concurrent updates
\* Each thread of Updaters makes one call of Update for its transaction, taken
\* a line at a time.
\* an UpdateInternal that does not take update_lock
UpdateLockFree(t) == "none"

\* lock_guard<mutex> update_guard(update_lock), line 324
UpdateLockGuard(t) == t

\* Update, lines 551 to 555: Fetch decodes the base vector of the row; on the
\* tree a Checkpoint has emptied, GetSegment throws and Update does nothing
UpdateFetch ==
    /\ data # <<>>
    /\ \E t \in Updaters, row_id \in start..(start + count - 1) :
          /\ updating.call[t].pc = "idle"
          /\ Fetch(data, start, row_id).err = ""
          /\ updating' = [updating EXCEPT !.call[t] =
                             [NoCall EXCEPT !.pc = "fetched", !.row = row_id,
                                            !.value = NextValue(row_id)]]
    /\ UNCHANGED <<start, count, data, stats, updates, append_state, scan_state,
                   txns, clock, last, net_rows, phase, snap, scan_log, lock, pc,
                   pending, reading, moved, locks>>

\* UpdateInternal, line 324: update_lock is taken
UpdateLock ==
    /\ locks.update_lock = "none"
    /\ \E t \in Updaters :
          /\ updating.call[t].pc = "fetched"
          /\ locks' = [locks EXCEPT !.update_lock = UpdateLockGuard(t)]
          /\ updating' = [updating EXCEPT !.call[t].pc = "locked"]
    /\ UNCHANGED <<start, count, data, stats, updates, append_state, scan_state,
                   txns, clock, last, net_rows, phase, snap, scan_log, lock, pc,
                   pending, reading, moved>>

\* line 325: the test of updates
UpdateCheck ==
    /\ \E t \in Updaters :
          /\ updating.call[t].pc = "locked"
          /\ updating' = [updating EXCEPT !.call[t].pc =
                             IF updates.present THEN "apply" ELSE "create"]
    /\ UNCHANGED <<start, count, data, stats, updates, append_state, scan_state,
                   txns, clock, last, net_rows, phase, snap, scan_log, lock, pc,
                   pending, reading, moved, locks>>

\* line 326: updates = make_uniq<UpdateSegment>(*this); the overlay there was,
\* if any, is destroyed with its entries
UpdateCreate ==
    /\ \E t \in Updaters :
          /\ updating.call[t].pc = "create"
          /\ updating' = [updating EXCEPT !.call[t].pc = "apply",
                                          !.made = @ + 1]
    /\ updates' = [present |-> TRUE, info |-> {}]
    /\ UNCHANGED <<start, count, data, stats, append_state, scan_state, txns,
                   clock, last, net_rows, phase, snap, scan_log, lock, pc,
                   pending, reading, moved, locks>>

\* lines 328 and 329: updates->Update, and the return lets go of update_lock;
\* a call on an overlay that is no longer there is a null dereference, shown
\* as the error "undefined"
UpdateApply ==
    /\ \E t \in Updaters :
          LET call == updating.call[t]
              transaction == TransactionOf(TxnOf(t))
              conflict == UpdateConflict(updates.info, transaction, call.row - start)
              err == IF ~updates.present THEN "undefined"
                     ELSE IF conflict THEN "TransactionException" ELSE ""
          IN /\ call.pc = "apply"
             /\ updates' = IF err = ""
                           THEN [updates EXCEPT !.info =
                                    UpdateSegmentUpdate(@, transaction,
                                                        call.row - start, call.value)]
                           ELSE updates
             /\ updating' = [updating EXCEPT !.call[t] =
                                [call EXCEPT !.pc = "done", !.err = err,
                                             !.during = pc["checkpoint"] # "idle"]]
             /\ locks' = [locks EXCEPT !.update_lock = IF @ = t THEN "none" ELSE @]
             /\ last' = Result("Update", err, call.row, TxnOf(t), <<call.value>>,
                               NoAux)
    /\ UNCHANGED <<start, count, data, stats, append_state, scan_state, txns,
                   clock, net_rows, phase, snap, scan_log, lock, pc, pending,
                   reading, moved>>

\* the commit of an updating session's transaction, between its calls
CommitUpdated ==
    /\ updates.present
    /\ \E t \in Updaters :
          /\ updating.call[t].pc \in {"idle", "done"}
          /\ CommitTransaction(TxnOf(t))

\* ScanCommittedRange, lines 364 to 366: the cursor is put on the row,
\* HasUpdates() takes update_lock and lets go of it, and the segments are
\* scanned
RangeScan ==
    /\ pc["read"] = "idle"
    /\ locks.update_lock = "none"
    /\ \E offset_in_row_group \in 0..(count - 1) :
          LET child_state == InitializeScanWithOffsetState(data,
                                 start + offset_in_row_group)
              has_updates == updates.present
          IN /\ child_state.current # 0
             /\ updating' = [updating EXCEPT !.range =
                   [has_updates |-> has_updates, offset |-> offset_in_row_group,
                    rows |-> ScanVector(data, child_state, STANDARD_VECTOR_SIZE,
                                        has_updates, FALSE).rows]]
    /\ pc' = [pc EXCEPT !["read"] = "range"]
    /\ UNCHANGED <<start, count, data, stats, updates, append_state, scan_state,
                   txns, clock, last, net_rows, phase, snap, scan_log, lock,
                   pending, reading, moved, locks>>

\* lines 367 to 370: with has_updates the committed entries of the overlay
\* are applied through the updates pointer, no lock held; when the overlay has
\* been destroyed since line 365 the call is on a null pointer, shown as the
\* error "undefined"
RangeFetch ==
    /\ pc["read"] = "range"
    /\ LET range == updating.range
           err == IF range.has_updates /\ ~updates.present THEN "undefined" ELSE ""
           rows == IF range.has_updates /\ updates.present
                   THEN [i \in 1..Len(range.rows) |->
                           CommittedValue(updates.info, range.offset + i - 1,
                                          range.rows[i])]
                   ELSE range.rows
       IN last' = Result("ScanCommittedRange", err, range.offset, 0, rows,
                         [has_updates |-> range.has_updates])
    /\ updating' = [updating EXCEPT !.range = NoRange]
    /\ pc' = [pc EXCEPT !["read"] = "idle"]
    /\ UNCHANGED <<start, count, data, stats, updates, append_state, scan_state,
                   txns, clock, net_rows, phase, snap, scan_log, lock, pending,
                   reading, moved, locks>>

\* the threads that update a loaded column that has no overlay yet
NextLazyOverlay ==
    \/ DeserializeColumn
    \/ UpdateFetch
    \/ UpdateLock
    \/ UpdateCheck
    \/ UpdateCreate
    \/ UpdateApply

SpecLazyOverlay == Init /\ [][NextLazyOverlay]_vars

\* updates, committed-range scans and a Checkpoint of a loaded column, each
\* on its own thread
NextOverlay ==
    \/ DeserializeColumn
    \/ UpdateFetch
    \/ UpdateLock
    \/ UpdateCheck
    \/ UpdateCreate
    \/ UpdateApply
    \/ RangeScan
    \/ RangeFetch
    \/ CheckpointLock
    \/ CheckpointMove
    \/ CheckpointWrite
    \/ CheckpointReplace

SpecOverlay == InitUpdate /\ [][NextOverlay]_vars

\* updates and commits of a loaded column while a Checkpoint runs
NextCheckpointUpdate ==
    \/ DeserializeColumn
    \/ UpdateFetch
    \/ UpdateLock
    \/ UpdateCheck
    \/ UpdateCreate
    \/ UpdateApply
    \/ CommitUpdated
    \/ CheckpointLock
    \/ CheckpointMove
    \/ CheckpointWrite
    \/ CheckpointReplace

SpecCheckpointUpdate == InitUpdate /\ [][NextCheckpointUpdate]_vars

\* the calls that take the locks of a column, each on its own thread
NextLocks ==
    \/ ThreadInitializeAppend
    \/ AppendEnter
    \/ AppendEntered
    \/ AppendCopy
    \/ AppendCounted
    \/ AppendGrow
    \/ AppendFreed
    \/ AppendLeave
    \/ CheckZonemapLock
    \/ CheckZonemapFilter
    \/ UpdateInternalLock
    \/ UpdateInternal
    \/ CheckpointLock
    \/ CheckpointMove
    \/ CheckpointWrite
    \/ CheckpointReplace

SpecLocks == Init /\ [][NextLocks]_vars

\* ------------------------------------------------------------- statistics
\* what a call that throws, or that only reads, leaves alone
StatisticsUnchanged ==
    UNCHANGED <<start, count, data, stats, updates, append_state, scan_state,
                txns, clock, net_rows, caller>>

\* Append(state, vector, append_count), lines 413 to 419
AppendColumn ==
    \E append_count \in 0..(MaxRows - count) :
        /\ append_state.current # 0
        /\ IF HasStatistics(stats)
           THEN AppendOp(append_count)
           ELSE /\ last' = Result("Append", "InternalException", append_count, 0,
                                  <<>>, NoAux)
                /\ StatisticsUnchanged

\* Append(append_stats, state, vector, append_count), lines 407 to 411, on a
\* column that has a parent: the rows are appended and the statistics merged
\* are the parent's
AppendChild ==
    \E append_count \in 1..(MaxRows - count) :
        /\ append_state.current # 0
        /\ ~HasStatistics(stats)
        /\ LET r == AppendDataLoop(data, append_state.current, EmptyStats,
                                   InputVector(append_count), 0, append_count)
           IN /\ count' = count + append_count
              /\ data' = r.data
              /\ append_state' = [current |-> r.current]
              /\ last' = Result("AppendChild", "", append_count, 0, <<>>,
                                [append_stats |-> r.stats])
        /\ net_rows' = net_rows + append_count
        /\ UNCHANGED <<start, stats, updates, scan_state, txns, clock, caller>>

\* CheckZonemap(filter), lines 421 to 432
CheckZonemap ==
    \E constant \in Values :
        /\ last' = IF HasStatistics(stats)
                   THEN Result("CheckZonemap", "", constant, 0, <<>>,
                               [result |-> CheckStatistics(stats, constant) \notin
                                   {"FILTER_ALWAYS_FALSE", "FILTER_FALSE_OR_NULL"}])
                   ELSE Result("CheckZonemap", "InternalException", constant, 0,
                               <<>>, NoAux)
        /\ StatisticsUnchanged

\* GetStatistics(), lines 434 to 440
GetStatistics ==
    /\ last' = IF HasStatistics(stats)
               THEN Result("GetStatistics", "", 0, 0, <<>>, [statistics |-> stats])
               ELSE Result("GetStatistics", "InternalException", 0, 0, <<>>, NoAux)
    /\ StatisticsUnchanged

\* MergeStatistics(other), lines 442 to 448
MergeStatistics ==
    \E v \in Values :
        /\ last' = Result("MergeStatistics",
                          IF HasStatistics(stats) THEN "" ELSE "InternalException",
                          v, 0, <<>>, NoAux)
        /\ stats' = IF HasStatistics(stats) THEN Merge(stats, StatsOfValue(v))
                    ELSE stats
        /\ UNCHANGED <<start, count, data, updates, append_state, scan_state,
                       txns, clock, net_rows, caller>>

\* the calls on the statistics of a column with or without a parent
InitStatistics == \E parent \in BOOLEAN : ColumnDataInit(parent)

NextStatistics ==
    \/ InitializeAppend
    \/ AppendColumn
    \/ AppendChild
    \/ CheckZonemap
    \/ GetStatistics
    \/ MergeStatistics

SpecStatistics == InitStatistics /\ [][NextStatistics]_vars

\* the reads by row id of a column that was loaded and appended to
NextFetch ==
    \/ DeserializeColumn
    \/ InitializeAppend
    \/ Append_
    \/ FetchAny
    \/ FetchRowAny
    \/ InitializeScanWithOffset

SpecFetch == Init /\ [][NextFetch]_vars

\* a column loaded from records of any layout, then appended to
NextDeserialize ==
    \/ DeserializeAny
    \/ InitializeAppend
    \/ Append_

SpecDeserialize == Init /\ [][NextDeserialize]_vars

\* Append with an append_count of 0: the loop of AppendData copies nothing in
\* its first pass and ends
AppendZero ==
    /\ pc["append"] = "idle"
    /\ append_state.current # 0 /\ append_state.current <= Len(data)
    /\ AppendOp(0)

\* the appending thread alone; a call of AppendData that has begun goes on
\* with its next line
NextAppendLive ==
    \/ DeserializeColumn
    \/ ThreadInitializeAppend
    \/ AppendBegin
    \/ AppendZero
    \/ AppendCopy
    \/ AppendCounted
    \/ AppendGrow

SpecAppendLive ==
    /\ Init
    /\ [][NextAppendLive]_vars
    /\ WF_vars(AppendCopy)
    /\ WF_vars(AppendCounted)
    /\ WF_vars(AppendGrow)

\* an append in progress and a concurrent reader
NextAppendScan ==
    \/ ThreadInitializeAppend
    \/ AppendBegin
    \/ AppendCopy
    \/ AppendCounted
    \/ AppendGrow
    \/ ReadCount
    \/ ReadScan

SpecAppendScan == Init /\ [][NextAppendScan]_vars

\* the appending thread and a concurrent Checkpoint
NextCheckpoint ==
    \/ ThreadInitializeAppend
    \/ AppendBegin
    \/ AppendCopy
    \/ AppendCounted
    \/ AppendGrow
    \/ AppendFreed
    \/ ThreadRevertAppend
    \/ CheckpointLock
    \/ CheckpointMove
    \/ CheckpointWrite
    \/ CheckpointReplace

SpecCheckpoint == Init /\ [][NextCheckpoint]_vars

\* scans of any number of rows from any row of a column that is appended to
\* and checkpointed between them
NextScanCount ==
    \/ DeserializeColumn
    \/ InitializeAppend
    \/ Append_
    \/ Checkpoint
    \/ InitializeScanAny
    \/ InitializeScanWithOffset
    \/ ScanCount

SpecScanCount == Init /\ [][NextScanCount]_vars

\* single-row fetches of a column whose rows are updated, committed and
\* checkpointed
NextFetchRow ==
    \/ InitializeAppend
    \/ AppendSmall
    \/ Checkpoint
    \/ Commit
    \/ Update
    \/ FetchRow_

SpecFetchRow == InitUpdate /\ [][NextFetchRow]_vars

\* ------------------------------------------------------------- properties
\* C1: after any sequence of appends and reverts (and the other structural
\* operations) the column's count is the number of rows appended less the rows
\* that reverts took out of the segments, and the counts of the segments of the
\* tree add up to count whenever no operation is in progress.
CountIsRowsAppendedLessReverted ==
    /\ count = net_rows
    /\ SumCounts(data) = count

\* a revert has cut rows out of a column of several segments and rows remain
RevertedInsideColumn ==
    /\ last.op = "RevertAppend" /\ last.err = "" /\ ~last.aux.noop
    /\ count > 0 /\ count < MaxRows
    /\ Len(data) >= 2

\* C2: after any sequence of InitializeAppend, Append, RevertAppend,
\* Checkpoint, DeserializeColumn on contiguous records and SetStart, the first
\* segment starts at the column's start and every segment starts where the
\* segment before it ends (so the segments are sorted and do not overlap).
SegmentsContiguous ==
    /\ data # <<>> => data[1].start = start
    /\ \A i \in 1..(Len(data) - 1) :
          data[i].start + data[i].count = data[i + 1].start

\* SetStart has moved a column of three or more segments, the last one open
MovedSeveralSegments ==
    /\ last.op = "SetStart"
    /\ Len(data) >= 3
    /\ data[1].segment_type = "PERSISTENT"
    /\ data[Len(data)].segment_type = "TRANSIENT"

\* the committed scan of the whole column in the current state
CommittedScanRows ==
    ScanAll(data, count, updates, TransactionData(0, 0), TRUE).rows

\* C4: after a Checkpoint of a populated column, a committed scan of the whole
\* column returns row by row the values the committed scan returned before
\* the Checkpoint, and the statistics the checkpoint merged are the statistics
\* of those values.
CheckpointRoundTrip ==
    (last.op = "Checkpoint" /\ ~last.aux.empty) =>
        /\ CommittedScanRows = last.aux.before
        /\ last.aux.global_stats = StatsOfRows(last.aux.before)

\* a Checkpoint has rewritten persistent and transient segments with a
\* committed update on one row and none on another
CheckpointedMixedColumn ==
    /\ last.op = "Checkpoint" /\ ~last.aux.empty
    /\ last.aux.persistent # {} /\ last.aux.transient # {}
    /\ last.aux.committed # {}
    /\ \E i, j \in 1..Len(last.aux.before) :
          /\ (i - 1) \in last.aux.committed /\ last.aux.before[i] = 1
          /\ (j - 1) \notin last.aux.committed /\ last.aux.before[j] = 0

\* the value Fetch returns at row_id
FetchedValue(row_id) ==
    LET f == Fetch(data, start, row_id)
    IN IF f.err = "" /\ row_id - f.row_index + 1 <= Len(f.rows)
       THEN f.rows[row_id - f.row_index + 1] ELSE Unwritten

\* the value FetchRow returns to transaction t at row_id
FetchedRowValue(t, row_id) ==
    FetchRow(data, start, updates, TransactionOf(t), row_id).value

\* the value Scan returns to transaction t at row_id
ScannedValue(t, row_id) ==
    LET vector_index == (row_id - start) \div STANDARD_VECTOR_SIZE
        state == InitializeScanWithOffsetState(data,
                     start + vector_index * STANDARD_VECTOR_SIZE)
        r == ScanVectorT(data, count, updates, TransactionOf(t), vector_index,
                         state, FALSE, TRUE, FALSE)
        i == row_id - start - vector_index * STANDARD_VECTOR_SIZE + 1
    IN IF i <= Len(r.rows) THEN r.rows[i] ELSE Unwritten

\* C5 as stated: after transaction T has updated a valid row through Update,
\* Fetch of the row returns the new value, and every other transaction still
\* reads the old value.
FetchObservesUpdate ==
    (last.op = "Update" /\ last.err = "") =>
        /\ FetchedValue(last.arg) = last.rows[1]
        /\ \A u \in Txns \ {last.txn} :
              FetchedRowValue(u, last.arg) = last.aux.old[u]

\* C5: after transaction T has updated a valid row through Update, T reads
\* the new value at the row through FetchRow and through Scan, every other
\* transaction still reads the value it read before, and Fetch, which takes no
\* transaction and leaves the overlay out, returns the value of the segment.
UpdateVisibleToWriterOnly ==
    (last.op = "Update" /\ last.err = "") =>
        /\ FetchedRowValue(last.txn, last.arg) = last.rows[1]
        /\ ScannedValue(last.txn, last.arg) = last.rows[1]
        /\ \A u \in Txns \ {last.txn} :
              /\ FetchedRowValue(u, last.arg) = last.aux.old[u]
              /\ ScannedValue(u, last.arg) = last.aux.old[u]
        /\ FetchedValue(last.arg) = last.aux.base

\* a transaction has updated a row of the second vector-block to a value the
\* other transaction does not read there
UpdatedUnseenByOther ==
    /\ last.op = "Update" /\ last.err = ""
    /\ last.arg >= start + STANDARD_VECTOR_SIZE
    /\ \E u \in Txns \ {last.txn} : last.aux.old[u] # last.rows[1]
    /\ last.aux.base # last.rows[1]

\* C6: the overlay comes into being in a step of Update only and goes away in
\* a step of Checkpoint only; an Update that reaches the overlay leaves the
\* column with one, and every Checkpoint leaves it without.
OverlayLifecycle ==
    [][/\ (~updates.present /\ updates'.present) => last'.op = "Update"
       /\ (updates.present /\ ~updates'.present) => last'.op = "Checkpoint"
       /\ last'.op = "Update" => updates'.present
       /\ last'.op = "Checkpoint" => ~updates'.present]_vars

\* a Checkpoint has cleared an overlay
CheckpointClearedOverlay ==
    /\ last.op = "Checkpoint" /\ last.aux.had_updates
    /\ ~updates.present

\* C7: a ScanCommitted of a vector-block that forbids updates fails with the
\* transaction error exactly when the overlay holds an uncommitted update in
\* the block; one that allows them never fails; a ScanCommitted that succeeds
\* returns the newest committed value of every row of the block, the value of
\* the segment where there is none.
ScanCommittedAllowUpdates ==
    last.op = "ScanCommitted" =>
        LET uncommitted == \E e \in updates.info :
                              /\ e.version = 0
                              /\ e.row \div STANDARD_VECTOR_SIZE = last.arg
            raw == last.aux.raw
        IN /\ last.aux.allow_updates => last.err = ""
           /\ ~last.aux.allow_updates =>
                 (last.err = "TransactionException" <=> uncommitted)
           /\ last.err \in {"", "TransactionException"}
           /\ last.err = "" =>
                 /\ Len(last.rows) = Len(raw)
                 /\ \A i \in 1..Len(raw) :
                       LET row == last.arg * STANDARD_VECTOR_SIZE + i - 1
                           versions == {e \in updates.info :
                                          e.row = row /\ e.version > 0}
                       IN IF versions = {} THEN last.rows[i] = raw[i]
                          ELSE \E e \in versions :
                                 /\ last.rows[i] = e.value
                                 /\ \A x \in versions : x.version <= e.version

\* a ScanCommitted that forbids updates has failed on a block with an
\* uncommitted update while another block holds a committed one
ScanCommittedRefused ==
    /\ last.op = "ScanCommitted" /\ ~last.aux.allow_updates
    /\ last.err = "TransactionException"
    /\ \E e \in updates.info :
          e.version > 0 /\ e.row \div STANDARD_VECTOR_SIZE # last.arg

\* the boundaries of the segments of a tree
Boundaries(tree) ==
    [i \in 1..Len(tree) |-> [start |-> tree[i].start, count |-> tree[i].count]]

\* the column had the reverted append never happened: InitializeAppend and
\* the append of append_count rows on the column as it was before
NeverAppended(append_count) ==
    LET i == InitializeAppendResult(snap.data, start)
        r == AppendDataLoop(i.data, i.current, snap.stats,
                            InputVector(append_count), 0, append_count)
    IN [data |-> r.data, count |-> snap.count + append_count]

\* C3: when an append has been reverted to the row it began at and rows have
\* been appended again from that row, the segments have the boundaries and
\* counts, and the column the count, that the same append gives on the column
\* on which the reverted append never happened.
RevertThenAppendAgain ==
    phase = "done" =>
        /\ Boundaries(data) = Boundaries(NeverAppended(last.arg).data)
        /\ count = NeverAppended(last.arg).count

\* an append that began in the middle of a segment and went on into further
\* segments has been reverted and made again
RevertedMidSegment ==
    /\ phase = "done"
    /\ snap.data # <<>>
    /\ LET tail == snap.data[Len(snap.data)]
       IN /\ tail.count > 0 /\ tail.count < SegmentCapacity
          /\ tail.start + tail.count = snap.row
    /\ Len(data) > Len(snap.data)

\* an append that began at the end of a full segment has been reverted and
\* made again
RevertedAtBoundary ==
    /\ phase = "done"
    /\ snap.data # <<>>
    /\ LET tail == snap.data[Len(snap.data)]
       IN /\ tail.count = SegmentCapacity /\ tail.segment_type = "TRANSIENT"
          /\ tail.start + tail.count = snap.row

RECURSIVE SumSeq(_)
SumSeq(seq) == IF seq = <<>> THEN 0 ELSE Head(seq) + SumSeq(Tail(seq))

\* C8: in a scan of a column of count rows from its start, block after block,
\* the scan of block i returns min(STANDARD_VECTOR_SIZE, count minus
\* STANDARD_VECTOR_SIZE * i) rows, and the counts returned add up to count
\* when the blocks scanned cover the column; for 2500 rows and blocks of 1024
\* the vector counts of blocks 0, 1, 2 are 1024, 1024 and 452 and block 2 is
\* the last.
ScanBlockCounts ==
    /\ phase = "scan" =>
          /\ \A i \in 1..Len(scan_log) :
                scan_log[i] = Min(STANDARD_VECTOR_SIZE,
                                  count - STANDARD_VECTOR_SIZE * (i - 1))
          /\ Len(scan_log) * STANDARD_VECTOR_SIZE >= count =>
                SumSeq(scan_log) = count
    /\ [i \in 1..3 |-> VectorCountOf(2500, 1024, i - 1)] = <<1024, 1024, 452>>
    /\ 2 * 1024 < 2500 /\ 2500 <= 3 * 1024

\* a column whose segments do not end where the vector-blocks end has been
\* scanned to its end in three or more blocks, the last one partial
ScannedAcrossSegments ==
    /\ phase = "scan"
    /\ Len(scan_log) >= 3
    /\ Len(scan_log) * STANDARD_VECTOR_SIZE >= count
    /\ scan_log[Len(scan_log)] < STANDARD_VECTOR_SIZE
    /\ \E i \in 1..Len(data) :
          /\ data[i].count > 0
          /\ (data[i].start - start) % STANDARD_VECTOR_SIZE # 0

\* C9 as stated: the count a reader bounds its scan with is raised only after
\* the rows are written, so the count a reader has seen never covers rows not
\* yet written
ReaderCountCoversWrittenRows ==
    pc["read"] = "scan" => reading.count <= reading.written

\* C9: while an Append is in progress a concurrent scan returns only rows that
\* are written. The column's count, from which the reader takes the size of
\* the vector, is raised before the rows are written; the scan reads no further
\* than the count of each segment, raised after the write, and so returns at
\* most the rows the reader asked for, every one of them a written row
ConcurrentScanReadsWrittenRows ==
    last.op = "ScanVector" =>
        /\ Len(last.rows) <= last.aux.vector_count
        /\ \A i \in 1..Len(last.rows) : last.rows[i] \in Values

\* a scan, sized by a count that covered unwritten rows, ran while the rows of
\* the append were written but not yet counted, and returned the rows before
ScannedDuringAppend ==
    /\ last.op = "ScanVector"
    /\ last.aux.appending = "copied"
    /\ reading.appending
    /\ reading.count > reading.written
    /\ Len(last.rows) > 0
    /\ Len(last.rows) < last.aux.vector_count

\* C10: MoveSegments and Replace of Checkpoint form one critical section of the
\* lock of the tree: between them the lock is Checkpoint's, and no step of
\* another thread creates or erases a segment, moves the append cursor or
\* changes the emptied tree
CheckpointCriticalSection ==
    [][Between =>
         /\ lock = "checkpoint"
         /\ pc'["checkpoint"] = pc["checkpoint"] =>
               /\ data' = data
               /\ append_state' = append_state
               /\ Len(moved'.nodes) = Len(moved.nodes)]_vars

\* the appending thread needs a new segment while Checkpoint is between
\* MoveSegments and Replace
AppendWaitsForCheckpoint ==
    /\ pc["checkpoint"] = "moved"
    /\ pc["append"] = "grow"
    /\ lock = "checkpoint"
    /\ data = <<>>

RevertOutOfRangeFails ==
    last.op = "RevertAppend" /\ (last.arg < start \/ last.arg > start + count) =>
        last.err = "InternalException"

\* C14: on a column without a statistics object Append (with the column's own
\* statistics), CheckZonemap, GetStatistics and MergeStatistics throw an
\* InternalException, and count, the segments, the overlay and the rest of
\* the column are as they were before the call
NoStatisticsIsAnError ==
    [][(/\ stats = NullStats
        /\ last'.op \in {"Append", "CheckZonemap", "GetStatistics",
                         "MergeStatistics"}) =>
         /\ last'.err = "InternalException"
         /\ UNCHANGED <<start, count, data, stats, updates, append_state>>]_vars

\* Append has thrown on a column with a parent that holds rows
AppendWithoutStatisticsThrew ==
    /\ stats = NullStats
    /\ count > 0
    /\ last.op = "Append"
    /\ last.arg > 0
    /\ last.err = "InternalException"

\* C15 as stated: Fetch, FetchRow and InitializeScanWithOffset of a row id
\* outside [start, start + count) throw an InternalException, return no data
\* and position no cursor
ReadOutOfRangeFails ==
    (/\ last.op \in {"Fetch", "FetchRow", "InitializeScanWithOffset"}
     /\ (last.arg < start \/ last.arg >= start + count)) =>
        /\ last.err = "InternalException"
        /\ last.rows = <<>>

\* the value the segments hold for a row of the column
RawValue(row) == SegmentRead(data[GetSegmentIndex(data, row)], row)

\* C16 as stated: Fetch of a row of the column puts the cursor on the first
\* row of the row's vector-block and returns the whole block, never a part of
\* it, with the values of the segments
FetchReturnsWholeBlock ==
    (last.op = "Fetch" /\ last.arg >= start /\ last.arg < start + count) =>
        /\ last.err = ""
        /\ last.aux.row_index = start +
              ((last.arg - start) \div STANDARD_VECTOR_SIZE) * STANDARD_VECTOR_SIZE
        /\ Len(last.rows) = STANDARD_VECTOR_SIZE
        /\ \A i \in 1..Len(last.rows) :
              last.rows[i] = RawValue(last.aux.row_index + i - 1)

\* C16: Fetch of a row of the column starts at the first row of the row's
\* vector-block and returns the rows of the block that the column holds, the
\* whole block or, at the end of the column, the part of it up to the last
\* row, with the values of the segments and no entry of the overlay applied;
\* it leaves the cursor after the rows returned
FetchReturnsBlockOfColumn ==
    (last.op = "Fetch" /\ last.arg >= start /\ last.arg < start + count) =>
        /\ last.err = ""
        /\ last.aux.row_index = start +
              ((last.arg - start) \div STANDARD_VECTOR_SIZE) * STANDARD_VECTOR_SIZE
        /\ Len(last.rows) =
              Min(STANDARD_VECTOR_SIZE, start + count - last.aux.row_index)
        /\ \A i \in 1..Len(last.rows) :
              last.rows[i] = RawValue(last.aux.row_index + i - 1)
        /\ last.aux.cursor = last.aux.row_index + Len(last.rows)

\* Fetch of the last row of a column whose last vector-block is not full, with
\* a committed update of that row in the overlay
FetchedPartBlockUnderUpdate ==
    /\ last.op = "Fetch" /\ last.err = ""
    /\ last.arg = start + count - 1
    /\ Len(last.rows) < STANDARD_VECTOR_SIZE
    /\ \E i \in 1..Len(last.rows) :
          CommittedValue(updates.info, last.aux.row_index - start + i - 1,
                         last.rows[i]) # last.rows[i]

\* the merge of the statistics of the records, in their order
RECURSIVE MergedStatistics(_)
MergedStatistics(data_pointers) ==
    IF data_pointers = <<>> THEN EmptyStats
    ELSE Merge(MergedStatistics(SubSeq(data_pointers, 1, Len(data_pointers) - 1)),
               data_pointers[Len(data_pointers)].statistics)

\* C17: DeserializeColumn over contiguous records makes one Persistent segment
\* of each record, in the order of the records, with the record's row_start
\* and tuple_count; count is the sum of the tuple_counts and the statistics
\* are the merge of the records' statistics
DeserializeOneSegmentPerRecord ==
    last.op = "DeserializeColumn" =>
        LET data_pointers == last.aux.data_pointers
        IN /\ Len(data) = Len(data_pointers)
           /\ \A i \in 1..Len(data_pointers) :
                 /\ data[i].segment_type = "PERSISTENT"
                 /\ data[i].start = data_pointers[i].row_start
                 /\ data[i].count = data_pointers[i].tuple_count
           /\ count = SumTuples(data_pointers)
           /\ stats = MergedStatistics(data_pointers)

\* a column deserialized from two records of different sizes
DeserializedTwoRecords ==
    /\ last.op = "DeserializeColumn"
    /\ Len(last.aux.data_pointers) = 2
    /\ Len(data) = 2
    /\ data[1].count # data[2].count
    /\ data[1].stats # data[2].stats

\* C18 as stated: DeserializeColumn over records of which one does not start
\* where the record before it ends is rejected with an error, and the tree
\* it leaves is contiguous
DeserializeRejectsGaps ==
    (/\ last.op = "DeserializeColumn"
     /\ \E i \in 2..Len(last.aux.data_pointers) :
           last.aux.data_pointers[i].row_start #
               last.aux.data_pointers[i - 1].row_start
                   + last.aux.data_pointers[i - 1].tuple_count) =>
        /\ last.err # ""
        /\ \A i \in 1..(Len(data) - 1) :
              data[i + 1].start = data[i].start + data[i].count

\* C19: RevertAppend(start_row) of a row of the column erases the segments
\* after the one that holds start_row, sets count to start_row - start, cuts
\* the segment that holds start_row back to start_row - segment.start rows
\* and leaves it the last of the tree, with no successor; the segments before
\* it are as they were
RevertCutsBackToRow ==
    [][(/\ last'.op = "RevertAppend"
        /\ start <= last'.arg /\ last'.arg < start + count) =>
         LET segment_index == GetSegmentIndex(data, last'.arg)
         IN /\ last'.err = ""
            /\ segment_index # 0
            /\ Len(data') = segment_index
            /\ GetNextSegment(data', segment_index) = 0
            /\ \A i \in 1..(segment_index - 1) : data'[i] = data[i]
            /\ data'[segment_index].start = data[segment_index].start
            /\ data'[segment_index].count = last'.arg - data[segment_index].start
            /\ Len(data'[segment_index].rows) = data'[segment_index].count
            /\ count' = last'.arg - start
            /\ start' = start]_vars

\* a revert to a row inside a segment that erased two later segments
RevertErasedLaterSegments ==
    /\ last.op = "RevertAppend" /\ last.err = ""
    /\ ~last.aux.noop
    /\ last.aux.erased = 2
    /\ Len(data) >= 1
    /\ data[Len(data)].count > 0
    /\ data[Len(data)].count < SegmentCapacity

\* the segment of the append cursor is the last segment and is transient
CursorOnTransientTail ==
    append_state.current # 0 =>
        /\ append_state.current = Len(CursorNodes)
        /\ CursorNodes[append_state.current].segment_type = "TRANSIENT"

\* C20: from InitializeAppend on and at every step of the Append that follows
\* it the segment of the append cursor is the last segment and is transient,
\* and a step of the appending thread adds rows to no segment but that one: a
\* persistent segment and a segment that is not the last never grow
AppendsGoToTransientTail ==
    [][/\ CursorOnTransientTail'
       /\ pc'["checkpoint"] = pc["checkpoint"] =>
            \A i \in 1..Len(CursorNodes) :
                (/\ i <= Len(CursorNodes')
                 /\ \/ CursorNodes'[i].count > CursorNodes[i].count
                    \/ Len(CursorNodes'[i].rows) > Len(CursorNodes[i].rows)) =>
                    /\ i = Len(CursorNodes)
                    /\ i = append_state.current
                    /\ CursorNodes[i].segment_type = "TRANSIENT"]_vars

\* rows are written into a transient segment that InitializeAppend put after
\* the persistent segments a checkpoint left
AppendedAfterPersistentTail ==
    /\ pc["append"] = "copied"
    /\ Len(data) >= 2
    /\ data[Len(data) - 1].segment_type = "PERSISTENT"
    /\ data[Len(data) - 1].count > 0
    /\ append_state.current = Len(data)
    /\ Len(data[Len(data)].rows) > 0

\* the rows of the segments from..to of a tree, one segment after the other
RECURSIVE RowsOfSegments(_, _, _)
RowsOfSegments(tree, from, to) ==
    IF from > to THEN <<>>
    ELSE SubSeq(tree[from].rows, 1, tree[from].count)
         \o RowsOfSegments(tree, from + 1, to)

\* C21: an Append that does not fit in the cursor's segment allocates, at
\* each overflow, a new transient segment that starts where the segment before
\* it ends, and goes on there; the segments before the cursor's are left as
\* they were, the cursor ends on the last segment allocated, and the rows the
\* call added to the cursor's segment and the new segments, read in segment
\* order, are the append_count input rows, each once and in input order.
AppendOverflowsIntoNewSegments ==
    [][last'.op = "Append" =>
        LET c == append_state.current
            n == Len(data)
        IN /\ Len(data') >= n
           /\ \A i \in 1..n : i # c => data'[i] = data[i]
           /\ \A i \in (n + 1)..Len(data') :
                 LET before == IF i = n + 1 THEN data'[c] ELSE data'[i - 1]
                 IN /\ data'[i].segment_type = "TRANSIENT"
                    /\ data'[i].start = before.start + before.count
                    /\ before.count >= SegmentCapacity
           /\ append_state'.current = IF Len(data') > n THEN Len(data') ELSE c
           /\ SubSeq(data'[c].rows, 1, data[c].count)
                 = SubSeq(data[c].rows, 1, data[c].count)
           /\ SubSeq(data'[c].rows, data[c].count + 1, data'[c].count)
                 \o RowsOfSegments(data', n + 1, Len(data'))
                 = InputVector(last'.arg)
           /\ count' = count + last'.arg]_vars

\* an Append of five rows has filled the cursor's segment and two more, and
\* put the last row in a third
AppendedOverTwoOverflows ==
    /\ last.op = "Append"
    /\ last.arg = MaxRows
    /\ Len(data) >= 3
    /\ data[Len(data)].count = 1
    /\ \A i \in 1..Len(data) : data[i].segment_type = "TRANSIENT"

\* the row after the last row of the tree
EndOfTree(tree) == GetLastSegment(tree).start + GetLastSegment(tree).count

\* C22: ScanVector(state, result, remaining) returns the rows row_index,
\* row_index + 1, ... in this order, going on into the segments that follow
\* the cursor's; it returns min(remaining, rows from the cursor to the end of
\* the tree) rows, advances row_index by that number, and leaves
\* internal_index = row_index and row_index within the cursor's segment, its
\* end included.
ScanVectorReturnsRowsInOrder ==
    [][last'.op = "ScanCount" /\ last'.arg > 0 =>
        LET returned == Len(last'.rows)
            current == data[scan_state'.current]
        IN /\ returned = Min(last'.arg, EndOfTree(data) - scan_state.row_index)
           /\ \A i \in 1..returned :
                 last'.rows[i] = RawValue(scan_state.row_index + i - 1)
           /\ scan_state'.row_index = scan_state.row_index + returned
           /\ scan_state'.internal_index = scan_state'.row_index
           /\ scan_state'.row_index >= current.start
           /\ scan_state'.row_index <= current.start + current.count]_vars

\* a scan of three rows from inside a segment went on into the next segment
\* and ended at the end of the tree with two rows
ScanCrossedToEndOfTree ==
    /\ last.op = "ScanCount"
    /\ last.arg = 3
    /\ Len(last.rows) = 2
    /\ scan_state.current > last.aux.current
    /\ last.aux.row_index > data[last.aux.current].start
    /\ scan_state.row_index = EndOfTree(data)

\* the rows a call was asked for: the vector-block clipped to count for a scan,
\* a whole vector-block for Fetch
RequestedCount ==
    IF last.op = "Fetch" THEN STANDARD_VECTOR_SIZE
    ELSE VectorCount(count, last.arg)

\* the row the last scan or fetch began at
FirstScannedRow ==
    IF last.op = "Fetch" THEN last.aux.row_index
    ELSE start + last.arg * STANDARD_VECTOR_SIZE

\* the rows the segments gave to the last scan or fetch, before the overlay
ScannedRows == IF last.op = "Fetch" THEN last.rows ELSE last.aux.raw

FetchRowIsScanOfRow ==
    (last.op = "FetchRow" /\ last.arg >= start /\ last.arg < start + count) =>
        LET visible == VisibleEntries(updates.info, TransactionOf(last.txn),
                                      last.arg - start)
            own == {e \in visible : e.version = 0}
        IN /\ last.err = ""
           /\ Len(last.rows) = 1
           /\ visible = {} => last.rows[1] = RawValue(last.arg)
           /\ own # {} => \E e \in own : last.rows[1] = e.value
           /\ (visible # {} /\ own = {}) =>
                 \E e \in visible :
                    /\ last.rows[1] = e.value
                    /\ \A f \in visible : f.version <= e.version
           /\ last.rows[1] = ScannedValue(last.txn, last.arg)

\* FetchRow returned to a transaction the value of an update, not the value of
\* the segment, at a row where the other transaction reads the segment's value
FetchedRowFromOverlay ==
    /\ last.op = "FetchRow"
    /\ last.err = ""
    /\ last.rows[1] # RawValue(last.arg)
    /\ \E u \in Txns \ {last.txn} : FetchedRowValue(u, last.arg) = RawValue(last.arg)

\* the overlay entry the call of thread t wrote
WrittenEntry(t) ==
    [row |-> updating.call[t].row - start, txn |-> TxnOf(t), version |-> 0,
     value |-> updating.call[t].value]

\* C25: when several threads call Update on a column that has no overlay,
\* one overlay object is created, by the first of them to take update_lock,
\* and the update of every call that returned without error is an entry of
\* the overlay the column has.
OverlayCreatedOnce ==
    /\ updating.made <= 1
    /\ updates.present <=> updating.made = 1
    /\ \A t \in Updaters :
          /\ updating.call[t].pc \in {"apply", "done"} => updates.present
          /\ (updating.call[t].pc = "done" /\ updating.call[t].err = "") =>
                WrittenEntry(t) \in updates.info

\* both threads found the column without an overlay when they began, and
\* both have returned with their updates in the one overlay made
BothUpdatesInOneOverlay ==
    /\ \A t \in Updaters :
          /\ updating.call[t].pc = "done"
          /\ updating.call[t].err = ""
          /\ WrittenEntry(t) \in updates.info
    /\ updating.made = 1

\* C26 as stated: every thread that is creating, writing, reading or
\* destroying the overlay holds update_lock (Update from its test of the
\* overlay to its return, ScanCommittedRange and CheckpointScan where they
\* apply the committed entries), so no thread reads the overlay while another
\* thread is creating it, writing it, or has destroyed it.
OverlayAccessedUnderLock ==
    /\ \A t \in Updaters :
          updating.call[t].pc \in {"locked", "create", "apply"} =>
              locks.update_lock = t
    /\ (pc["read"] = "range" /\ updating.range.has_updates) =>
          locks.update_lock = "read"
    /\ pc["checkpoint"] = "moved" => locks.update_lock = "checkpoint"
    /\ ~(pc["read"] = "range" /\ updating.range.has_updates /\ ~updates.present)
    /\ ~(/\ pc["checkpoint"] = "moved"
         /\ \E t \in Updaters : updating.call[t].pc \in {"create", "apply"})

\* C27 as stated: when an Update wrote its entry while a Checkpoint of the
\* column was running and the Checkpoint has returned, the transaction that
\* wrote it still reads the updated value at the row, from the new segments or
\* from the overlay.
UpdateSurvivesCheckpoint ==
    \A t \in Updaters :
        LET call == updating.call[t]
        IN (/\ call.pc = "done"
            /\ call.err = ""
            /\ call.during
            /\ pc["checkpoint"] = "idle") =>
               /\ FetchedRowValue(TxnOf(t), call.row) = call.value
               /\ ScannedValue(TxnOf(t), call.row) = call.value

\* C28: an AppendData that has begun returns: its loop ends, and when it has
\* ended the rows copied in its passes add up to the append_count it was
\* called with; so for a pass in which the segment absorbs no row, after which
\* a new segment is allocated.
AppendTerminates ==
    (pc["append"] \in {"copy", "copied", "grow"}) ~>
        (/\ pc["append"] = "idle"
         /\ pending.copied_elements = pending.append_count
         /\ pending.offset + pending.copied_elements = pending.total)

\* a pass of the loop in which the cursor's segment, which was full, has
\* absorbed none of the rows that remain
AppendCopiedNothing ==
    /\ pc["append"] = "copied"
    /\ pending.copied_elements = 0
    /\ pending.append_count > 0
    /\ pending.offset = 0

====
